---- MODULE Spec2Model ----
(***************************************************************************)
(* Model of the chat backend: the socket.io handshake (authenticateSocket), *)
(* the per-connection event handlers of socketHandler (join_chat,          *)
(* send_message, typing, read_receipt, update_status, disconnect), the     *)
(* in-memory onlineUsers map, the REST message handlers (sendMessage,      *)
(* getConversation with Chat.findOrCreate, getChats, getMessage,           *)
(* updateMessage, deleteMessage, getUnreadCount) and deactivateAccount.    *)
(* Every `await` on the durable store is an interleaving point: a handler  *)
(* step is the store call's effect together with the synchronous code that *)
(* runs when the await resumes.                                            *)
(***************************************************************************)
EXTENDS Integers, Sequences, FiniteSets, TLC

\* ------------------------------------------------------------- bounds
NumSockets == 3
MainSockets == 2
MaxMsgs == 2
DeliverySends == 2
NumReqs == 2
\* the clock stops at MaxTime minutes
MaxTime == 16

\* ------------------------------------------------------------- identities
\* "a", "b" and "c" have User records; "g" is a well-formed id with no User
\* record.  Callers are the users that connect and issue requests.
UserIds == {"a", "b", "c", "g"}
ExistingUsers == {"a", "b", "c"}
Callers == {"a", "b"}
Nil == "nil"
Sockets == 1..NumSockets
Reqs == 1..NumReqs
\* chat ids a client may name; an id names no chat until that chat is created
ChatIds == 1..MaxMsgs

VARIABLES
  users,          \* User collection: id -> [status, isActive, username, email]
  messages,       \* Message collection: set of records
  chats,          \* Chat collection: sequence of records, _id = index
  onlineUsers,    \* the in-memory Map userId -> [socketId, status] (NoEntry: absent)
  conn,           \* per socket: position in its lifecycle
  sockUser,       \* socket.userId
  rooms,          \* per socket: joined chat rooms (chat:<id>)
  task,           \* per socket: the send_message handler in flight
  req,            \* per REST request: the handler in flight
  events,         \* server -> connection emissions
  msgCount,       \* send requests handled; the k-th one's Message gets _id k
  chatUpdatedFor, \* history: messages some chat.save() stored as lastMessage
  saveFailed,     \* history: [msg, socket] of every message.save() that failed
                  \* (socket 0: a REST request)
  now             \* the server clock (Date.now()), in minutes

vars == <<users, messages, chats, onlineUsers, conn, sockUser, rooms, task,
          req, events, msgCount, chatUpdatedFor, saveFailed, now>>

\* ------------------------------------------------------------- helpers
Rank(u) == CASE u = "a" -> 1 [] u = "b" -> 2 [] u = "c" -> 3 [] u = "g" -> 4 [] OTHER -> 0

\* Array.prototype.sort() of a two-element participants array
SortPair(x, y) == IF Rank(x) <= Rank(y) THEN <<x, y>> ELSE <<y, x>>

Range(f) == {f[i] : i \in DOMAIN f}

Min(S) == CHOOSE x \in S : \A y \in S : x <= y

IdleTask == [pc |-> "idle", to |-> Nil, chatId |-> 0, msg |-> 0, chat |-> 0,
             status |-> Nil, at |-> 0]

IdleReq == [pc |-> "idle", kind |-> Nil, from |-> Nil, to |-> Nil,
            chatId |-> 0, msg |-> 0, chat |-> 0, status |-> 0, result |-> {},
            ts |-> 0, at |-> 0]

\* new Message({sender, receiver, content}) with the schema defaults; ts is
\* Date.now() at construction.  readAt, editedAt and deletedAt are 0 while
\* unset.
NewMessage(id, sender, receiver, ts) ==
  [id |-> id, sender |-> sender, receiver |-> receiver, content |-> "hi",
   timestamp |-> ts, isRead |-> FALSE, readAt |-> 0,
   edited |-> FALSE, editedAt |-> 0, deleted |-> FALSE, deletedAt |-> 0]

\* onlineUsers.get(u) of a user the Map does not hold
NoEntry == [socketId |-> 0, status |-> Nil]

\* onlineUsers.has(u)
Online(u) == u \in UserIds /\ onlineUsers[u] # NoEntry

\* The target of an emit to the socket the Map holds for user `to`
DirectRecipients(to) ==
  IF Online(to) THEN {onlineUsers[to].socketId} ELSE {}

\* The auth middleware lets a request through for an existing, active user
Authenticated(u) == u \in DOMAIN users /\ users[u].isActive

\* String.prototype.toLowerCase over the addresses of the model
Lower(e) == CASE e = "A@x.io" -> "a@x.io" [] e = "D@x.io" -> "d@x.io" [] OTHER -> e

\* new User({username, email}) with the schema defaults and setters: email is
\* lowercased
UserDoc(username, email) ==
  [status |-> "offline", isActive |-> TRUE, username |-> username,
   email |-> Lower(email)]

\* the address the stored user u registered with
EmailOf(u) == CASE u = "a" -> "a@x.io" [] u = "b" -> "b@x.io" [] OTHER -> "c@x.io"

Emit(type, to, msg, via) == [type |-> type, to |-> to, msg |-> msg, via |-> via]

\* socket.emit('error', {code}) from the handler working on message msg
ErrorTo(s, code, msg) == Emit("error", s, msg, code)

\* socket.broadcast.emit: every connected socket but the emitting one
BroadcastFrom(s, type) ==
  {Emit(type, r, 0, sockUser[s]) : r \in {x \in Sockets : x # s /\ conn[x] = "connected"}}

\* io.to(`chat:${c}`).emit: every connected socket that joined the room
RoomMembers(c) == {r \in Sockets : conn[r] = "connected" /\ c \in rooms[r]}

\* Chat.findOne({participants: {$all: [x, y]}}) with an optional isGroup:false
\* filter: the first matching document, 0 when there is none
MatchingChats(x, y, nonGroupOnly) ==
  {i \in 1..Len(chats) : /\ {x, y} \subseteq Range(chats[i].participants)
                         /\ (nonGroupOnly => ~chats[i].isGroup)}

FindOneChat(x, y, nonGroupOnly) ==
  IF MatchingChats(x, y, nonGroupOnly) = {} THEN 0
  ELSE Min(MatchingChats(x, y, nonGroupOnly))

Init ==
  /\ users = [u \in ExistingUsers |-> UserDoc(u, EmailOf(u))]
  /\ messages = {}
  /\ chats = <<>>
  /\ onlineUsers = [u \in UserIds |-> NoEntry]
  /\ conn = [s \in Sockets |-> "new"]
  /\ sockUser = [s \in Sockets |-> Nil]
  /\ rooms = [s \in Sockets |-> {}]
  /\ task = [s \in Sockets |-> IdleTask]
  /\ req = [r \in Reqs |-> IdleReq]
  /\ events = {}
  /\ msgCount = 0
  /\ chatUpdatedFor = {}
  /\ saveFailed = {}
  /\ now = 0

\* ------------------------------------------------------------- handshake
\* Tokens a client may present: none, one that jwt.verify rejects, or a valid
\* one naming a user id.
Tokens == {"none", "bad", "g"} \cup Callers

\* Mutant of authenticateSocket: onlineUsers.set is skipped for a user the
\* Map already holds
authenticateSocket_keepsOldEntry(s, token, dbOk) ==
  /\ conn[s] = "new"
  /\ \A x \in Sockets : x < s => conn[x] # "new"
  /\ IF token \in ExistingUsers /\ dbOk
     THEN /\ sockUser' = [sockUser EXCEPT ![s] = token]
          /\ onlineUsers' = IF Online(token) THEN onlineUsers
                            ELSE [onlineUsers EXCEPT
                                    ![token] = [socketId |-> s, status |-> "online"]]
          /\ conn' = [conn EXCEPT ![s] = "auth"]
     ELSE /\ conn' = [conn EXCEPT ![s] = "rejected"]
          /\ UNCHANGED <<sockUser, onlineUsers>>
  /\ UNCHANGED <<now, users, messages, chats, rooms, task, req, events, msgCount,
                 chatUpdatedFor, saveFailed>>

\* authenticateSocket, up to its second await: token check, jwt.verify,
\* User.findById (dbOk: the store call succeeds), onlineUsers.set.
\* socket.io numbers connections as they arrive: socket s is the s-th one.
authenticateSocket(s, token, dbOk) ==
  /\ conn[s] = "new"
  /\ \A x \in Sockets : x < s => conn[x] # "new"
  /\ IF token \in ExistingUsers /\ dbOk
     THEN /\ sockUser' = [sockUser EXCEPT ![s] = token]
          /\ onlineUsers' = [onlineUsers EXCEPT
                                ![token] = [socketId |-> s, status |-> "online"]]
          /\ conn' = [conn EXCEPT ![s] = "auth"]
     ELSE /\ conn' = [conn EXCEPT ![s] = "rejected"]
          /\ UNCHANGED <<sockUser, onlineUsers>>
  /\ UNCHANGED <<now, users, messages, chats, rooms, task, req, events, msgCount,
                 chatUpdatedFor, saveFailed>>

\* authenticateSocket after `await User.findByIdAndUpdate`, then next() and the
\* io.on('connection') callback: join the personal room, broadcast user_online
authenticateSocket_update(s, dbOk) ==
  /\ conn[s] = "auth"
  /\ IF dbOk
     THEN /\ users' = [users EXCEPT ![sockUser[s]].status = "online"]
          /\ conn' = [conn EXCEPT ![s] = "connected"]
          /\ events' = events \cup BroadcastFrom(s, "user_online")
     ELSE /\ conn' = [conn EXCEPT ![s] = "rejected"]
          /\ UNCHANGED <<users, events>>
  /\ UNCHANGED <<now, messages, chats, onlineUsers, sockUser, rooms, task, req,
                 msgCount, chatUpdatedFor, saveFailed>>

\* ------------------------------------------------------------- disconnect
\* The transport closes: socket.io takes the socket out of its rooms and fires
\* 'disconnect'; the handler runs up to `await User.findByIdAndUpdate`
disconnect(s) ==
  /\ conn[s] = "connected"
  /\ conn' = [conn EXCEPT ![s] = "closing"]
  /\ rooms' = [rooms EXCEPT ![s] = {}]
  /\ UNCHANGED <<now, users, messages, chats, onlineUsers, sockUser, task, req,
                 events, msgCount, chatUpdatedFor, saveFailed>>

\* The registry update of the disconnect handler
RegistryAfterDisconnect(s) ==
  [onlineUsers EXCEPT ![sockUser[s]] = NoEntry]

\* The disconnect handler after its await: onlineUsers.delete, user_offline
\* broadcast; a failed status write lands in the catch, which only logs
disconnect_update(s, dbOk) ==
  /\ conn[s] = "closing"
  /\ conn' = [conn EXCEPT ![s] = "closed"]
  /\ IF dbOk
     THEN /\ users' = [users EXCEPT ![sockUser[s]].status = "offline"]
          /\ onlineUsers' = RegistryAfterDisconnect(s)
          /\ events' = events \cup BroadcastFrom(s, "user_offline")
     ELSE UNCHANGED <<users, onlineUsers, events>>
  /\ UNCHANGED <<now, messages, chats, sockUser, rooms, task, req, msgCount,
                 chatUpdatedFor, saveFailed>>

\* ------------------------------------------------------------- update_status
\* The enum of the status path of the User schema
StatusEnum == {"online", "offline", "away", "busy"}

\* The status values a client sends: the payload is not checked, so any
\* string arrives at the handler
Statuses == {"away", "busy", "invisible"}

\* update_status up to `await User.findByIdAndUpdate(socket.userId, {status})`
update_status(s, status) ==
  /\ conn[s] = "connected"
  /\ task[s].pc = "idle"
  /\ task' = [task EXCEPT ![s] = [IdleTask EXCEPT !.pc = "status", !.status = status]]
  /\ UNCHANGED <<now, users, messages, chats, onlineUsers, conn, sockUser, rooms,
                 req, events, msgCount, chatUpdatedFor, saveFailed>>

\* `onlineUsers.get(socket.userId).status = status` when the Map has the user
RegistryAfterStatus(s, status) ==
  IF Online(sockUser[s])
  THEN [onlineUsers EXCEPT ![sockUser[s]].status = status]
  ELSE onlineUsers

\* update_status after its await: the in-memory entry, then the
\* user_status_changed broadcast (the adapter delivers it to the other
\* sockets also when the emitting socket has closed meanwhile); a failed
\* write lands in the catch, which only logs
update_status_update(s, dbOk) ==
  /\ task[s].pc = "status"
  /\ task' = [task EXCEPT ![s] = IdleTask]
  /\ IF dbOk
     THEN /\ users' = [users EXCEPT ![sockUser[s]].status = task[s].status]
          /\ onlineUsers' = RegistryAfterStatus(s, task[s].status)
          /\ events' = events \cup BroadcastFrom(s, "user_status_changed")
     ELSE UNCHANGED <<users, onlineUsers, events>>
  /\ UNCHANGED <<now, messages, chats, conn, sockUser, rooms, req, msgCount,
                 chatUpdatedFor, saveFailed>>

\* ------------------------------------------------------------- read_receipt
\* Time passes between two steps
Tick(d) ==
  /\ now + d <= MaxTime
  /\ now' = now + d
  /\ UNCHANGED <<users, messages, chats, onlineUsers, conn, sockUser, rooms,
                 task, req, events, msgCount, chatUpdatedFor, saveFailed>>

\* The stored Message with _id m; MessageById is used only where it exists
HasMessage(m) == \E x \in messages : x.id = m

MessageById(m) == CHOOSE x \in messages : x.id = m

\* The collection after a save that wrote the fields of `doc` over the stored
\* document with the same _id
StoreMessage(doc) == {x \in messages : x.id # doc.id} \cup {doc}

\* read_receipt up to `await Message.findById(messageId)`
read_receipt(s, m, chatId) ==
  /\ conn[s] = "connected"
  /\ task[s].pc = "idle"
  /\ task' = [task EXCEPT ![s] =
       [IdleTask EXCEPT !.pc = "readFind", !.msg = m, !.chatId = chatId]]
  /\ UNCHANGED <<now, users, messages, chats, onlineUsers, conn, sockUser, rooms,
                 req, events, msgCount, chatUpdatedFor, saveFailed>>

\* Mutant of read_findById: the receiver test is left out
read_findById_anyReader(s, dbOk) ==
  /\ task[s].pc = "readFind"
  /\ task' = [task EXCEPT ![s] =
       IF dbOk /\ HasMessage(task[s].msg)
       THEN [task[s] EXCEPT !.pc = "readSave", !.at = now]
       ELSE IdleTask]
  /\ UNCHANGED <<now, users, messages, chats, onlineUsers, conn, sockUser, rooms,
                 req, events, msgCount, chatUpdatedFor, saveFailed>>

\* The receiver test on the loaded message; isRead and readAt = new Date()
\* are set on the document and `await message.save()` is called.  A missing
\* message, another receiver or a failed lookup end the handler silently.
read_findById(s, dbOk) ==
  /\ task[s].pc = "readFind"
  /\ task' = [task EXCEPT ![s] =
       IF /\ dbOk /\ HasMessage(task[s].msg)
          /\ MessageById(task[s].msg).receiver = sockUser[s]
       THEN [task[s] EXCEPT !.pc = "readSave", !.at = now]
       ELSE IdleTask]
  /\ UNCHANGED <<now, users, messages, chats, onlineUsers, conn, sockUser, rooms,
                 req, events, msgCount, chatUpdatedFor, saveFailed>>

\* The targets of the two message_read emits: the socket the Map holds for
\* the message's sender, and the room chat:<chatId> the client named
ReadReceiptEvents(s) ==
  {Emit("message_read", r, task[s].msg, "direct") :
     r \in DirectRecipients(MessageById(task[s].msg).sender)}
  \cup {Emit("message_read", r, task[s].msg, "room") :
          r \in RoomMembers(task[s].chatId)}

\* Mutant of read_save: the emits are made although nothing was stored
read_save_emitsUnsaved(s, dbOk) ==
  /\ task[s].pc = "readSave"
  /\ task' = [task EXCEPT ![s] = IdleTask]
  /\ events' = events \cup ReadReceiptEvents(s)
  /\ UNCHANGED <<now, users, messages, chats, onlineUsers, conn, sockUser, rooms,
                 req, msgCount, chatUpdatedFor, saveFailed>>

\* read_receipt after `await message.save()`: the two emits; a failed save
\* lands in the catch, which only logs
read_save(s, dbOk) ==
  /\ task[s].pc = "readSave"
  /\ task' = [task EXCEPT ![s] = IdleTask]
  /\ IF dbOk
     THEN /\ messages' = StoreMessage([MessageById(task[s].msg) EXCEPT
                                         !.isRead = TRUE, !.readAt = task[s].at])
          /\ events' = events \cup ReadReceiptEvents(s)
     ELSE UNCHANGED <<messages, events>>
  /\ UNCHANGED <<now, users, chats, onlineUsers, conn, sockUser, rooms, req,
                 msgCount, chatUpdatedFor, saveFailed>>

\* ------------------------------------------------------------- typing
\* Mutant of typing: a recipient the Map does not hold is reported to the
\* sender as an error
typing_errorWhenAbsent(s, to, isTyping) ==
  /\ conn[s] = "connected"
  /\ events' = events \cup
       (IF Online(to)
        THEN {Emit("typing_status", onlineUsers[to].socketId,
                   IF isTyping THEN 1 ELSE 0, sockUser[s])}
        ELSE {ErrorTo(s, "RECIPIENT_OFFLINE", 0)})
  /\ UNCHANGED <<now, users, messages, chats, onlineUsers, conn, sockUser, rooms,
                 task, req, msgCount, chatUpdatedFor, saveFailed>>

\* The typing handler, which has no await: typing_status to the socket the
\* Map holds for `to`, nothing when the Map has no entry.  The event's msg
\* field carries isTyping (1: true, 0: false), its via field the sender.
typing(s, to, isTyping) ==
  /\ conn[s] = "connected"
  /\ events' = events \cup
       (IF Online(to)
        THEN {Emit("typing_status", onlineUsers[to].socketId,
                   IF isTyping THEN 1 ELSE 0, sockUser[s])}
        ELSE {})
  /\ UNCHANGED <<now, users, messages, chats, onlineUsers, conn, sockUser, rooms,
                 task, req, msgCount, chatUpdatedFor, saveFailed>>

\* ------------------------------------------------------------- account
\* deactivateAccount behind the auth middleware: user.isActive = false,
\* user.status = 'offline', `await user.save()`.  Tokens issued before stay
\* valid for jwt.verify.
deactivateAccount(u, dbOk) ==
  /\ Authenticated(u)
  /\ users' = IF dbOk
              THEN [users EXCEPT ![u].isActive = FALSE, ![u].status = "offline"]
              ELSE users
  /\ UNCHANGED <<now, messages, chats, onlineUsers, conn, sockUser, rooms, task,
                 req, events, msgCount, chatUpdatedFor, saveFailed>>

\* ------------------------------------------------------------- join_chat
\* Chat.findById, then socket.join when the chat exists and lists the user.
\* The handler taken as one step: when the lookup fails, finds nothing or
\* finds a chat without the user, nothing changes, so only the joining case
\* is a step.
join_chat(s, c) ==
  /\ conn[s] = "connected"
  /\ c \in 1..Len(chats)
  /\ sockUser[s] \in Range(chats[c].participants)
  /\ c \notin rooms[s]
  /\ rooms' = [rooms EXCEPT ![s] = @ \cup {c}]
  /\ UNCHANGED <<now, users, messages, chats, onlineUsers, conn, sockUser, task,
                 req, events, msgCount, chatUpdatedFor, saveFailed>>

\* The same handler with its lookup in flight: join_chat up to
\* `await Chat.findById(chatId)`
join_chat_start(s, c) ==
  /\ conn[s] = "connected"
  /\ task[s].pc = "idle"
  /\ task' = [task EXCEPT ![s] = [IdleTask EXCEPT !.pc = "join", !.chatId = c]]
  /\ UNCHANGED <<now, users, messages, chats, onlineUsers, conn, sockUser, rooms,
                 req, events, msgCount, chatUpdatedFor, saveFailed>>

\* `chat && chat.participants.includes(socket.userId)`
IsParticipant(s, c) ==
  /\ c \in 1..Len(chats)
  /\ sockUser[s] \in Range(chats[c].participants)

\* Mutant of join_chat_findById: any existing chat is joined
join_chat_findById_anyUser(s, dbOk) ==
  /\ task[s].pc = "join"
  /\ task' = [task EXCEPT ![s] = IdleTask]
  /\ rooms' = IF dbOk /\ task[s].chatId \in 1..Len(chats) /\ conn[s] = "connected"
              THEN [rooms EXCEPT ![s] = @ \cup {task[s].chatId}]
              ELSE rooms
  /\ UNCHANGED <<now, users, messages, chats, onlineUsers, conn, sockUser, req,
                 events, msgCount, chatUpdatedFor, saveFailed>>

\* join_chat after its await: socket.join for a participant of an existing
\* chat; otherwise, and in the catch of a failed lookup, nothing but a log
\* line.  A socket that closed meanwhile is in no room any more.
join_chat_findById(s, dbOk) ==
  /\ task[s].pc = "join"
  /\ task' = [task EXCEPT ![s] = IdleTask]
  /\ rooms' = IF dbOk /\ IsParticipant(s, task[s].chatId) /\ conn[s] = "connected"
              THEN [rooms EXCEPT ![s] = @ \cup {task[s].chatId}]
              ELSE rooms
  /\ UNCHANGED <<now, users, messages, chats, onlineUsers, conn, sockUser, req,
                 events, msgCount, chatUpdatedFor, saveFailed>>

\* ------------------------------------------------------------- send_message
\* What a client may put in the `to` and `content` fields ("" and Nil: missing)
Recipients == Callers \cup {"g", Nil}
Contents == {"hi", ""}

\* Mutant of send_catch: the error goes to every connected socket
send_catch_toAll(s, m) ==
  /\ events' = events \cup
       {ErrorTo(r, "SEND_MESSAGE_FAILED", m) :
          r \in {s} \cup {x \in Sockets : conn[x] = "connected"}}
  /\ task' = [task EXCEPT ![s] = IdleTask]

\* The catch block of the send_message handler
send_catch(s, m) ==
  /\ events' = events \cup {ErrorTo(s, "SEND_MESSAGE_FAILED", m)}
  /\ task' = [task EXCEPT ![s] = IdleTask]

\* Mutant of send_message: a rejected message.save() is swallowed and the
\* handler carries on to the chat lookup
send_message_swallowsSaveError(s, to, content, chatId, dbOk) ==
  /\ conn[s] = "connected"
  /\ task[s].pc = "idle"
  /\ msgCount < MaxMsgs
  /\ msgCount' = msgCount + 1
  /\ IF to = Nil \/ content = ""
     THEN /\ events' = events \cup {ErrorTo(s, "INVALID_DATA", msgCount + 1)}
          /\ UNCHANGED <<messages, task, saveFailed>>
     ELSE /\ messages' = IF dbOk
                         THEN messages \cup
                                {NewMessage(msgCount + 1, sockUser[s], to, now)}
                         ELSE messages
          /\ saveFailed' = IF dbOk THEN saveFailed
                           ELSE saveFailed \cup {[msg |-> msgCount + 1, socket |-> s]}
          /\ task' = [task EXCEPT ![s] =
               [pc |-> IF chatId # 0 THEN "findById" ELSE "findOne",
                to |-> to, chatId |-> chatId, msg |-> msgCount + 1,
                chat |-> 0, status |-> Nil, at |-> 0]]
          /\ UNCHANGED events
  /\ UNCHANGED <<now, users, chats, onlineUsers, conn, sockUser, rooms, req,
                 chatUpdatedFor>>

\* Mutant of send_message: only the recipient is validated
send_message_recipientOnly(s, to, content, chatId, dbOk) ==
  /\ conn[s] = "connected"
  /\ task[s].pc = "idle"
  /\ msgCount < MaxMsgs
  /\ msgCount' = msgCount + 1
  /\ IF to = Nil
     THEN /\ events' = events \cup {ErrorTo(s, "INVALID_DATA", msgCount + 1)}
          /\ UNCHANGED <<messages, task, saveFailed>>
     ELSE /\ IF dbOk
             THEN /\ messages' = messages \cup
                       {NewMessage(msgCount + 1, sockUser[s], to, now)}
                  /\ task' = [task EXCEPT ![s] =
                       [pc |-> IF chatId # 0 THEN "findById" ELSE "findOne",
                        to |-> to, chatId |-> chatId, msg |-> msgCount + 1,
                        chat |-> 0, status |-> Nil, at |-> 0]]
                  /\ UNCHANGED <<events, saveFailed>>
             ELSE /\ saveFailed' = saveFailed \cup
                       {[msg |-> msgCount + 1, socket |-> s]}
                  /\ send_catch(s, msgCount + 1)
                  /\ UNCHANGED messages
  /\ UNCHANGED <<now, users, chats, onlineUsers, conn, sockUser, rooms, req,
                 chatUpdatedFor>>

\* send_message up to the end of `await message.save()`: validation of the
\* payload, new Message (which assigns _id), the insert
send_message(s, to, content, chatId, dbOk) ==
  /\ conn[s] = "connected"
  /\ task[s].pc = "idle"
  /\ msgCount < MaxMsgs
  /\ msgCount' = msgCount + 1
  /\ IF to = Nil \/ content = ""
     THEN /\ events' = events \cup {ErrorTo(s, "INVALID_DATA", msgCount + 1)}
          /\ UNCHANGED <<messages, task, saveFailed>>
     ELSE /\ IF dbOk
             THEN /\ messages' = messages \cup
                       {NewMessage(msgCount + 1, sockUser[s], to, now)}
                  /\ task' = [task EXCEPT ![s] =
                       [pc |-> IF chatId # 0 THEN "findById" ELSE "findOne",
                        to |-> to, chatId |-> chatId, msg |-> msgCount + 1,
                        chat |-> 0, status |-> Nil, at |-> 0]]
                  /\ UNCHANGED <<events, saveFailed>>
             ELSE /\ saveFailed' = saveFailed \cup
                       {[msg |-> msgCount + 1, socket |-> s]}
                  /\ send_catch(s, msgCount + 1)
                  /\ UNCHANGED messages
  /\ UNCHANGED <<now, users, chats, onlineUsers, conn, sockUser, rooms, req,
                 chatUpdatedFor>>

\* `chat = await Chat.findById(chatId)`: a found chat gets lastMessage assigned
\* and chat.save() is called; for a missing chat the handler falls through to
\* the emit, where `chat._id` throws and the catch block runs
send_findById(s, dbOk) ==
  /\ task[s].pc = "findById"
  /\ IF dbOk /\ task[s].chatId \in 1..Len(chats)
     THEN /\ task' = [task EXCEPT ![s].pc = "chatSave", ![s].chat = task[s].chatId]
          /\ UNCHANGED events
     ELSE send_catch(s, task[s].msg)
  /\ UNCHANGED <<now, users, messages, chats, onlineUsers, conn, sockUser, rooms,
                 req, msgCount, chatUpdatedFor, saveFailed>>

\* `chat = await Chat.findOne({participants: {$all: [socket.userId, to]}})`;
\* `at` is the Date.now() of the continuation, the lastActivity default of a
\* chat it constructs
send_findOne(s, dbOk) ==
  /\ task[s].pc = "findOne"
  /\ IF dbOk
     THEN /\ task' = [task EXCEPT
                 ![s].chat = FindOneChat(sockUser[s], task[s].to, FALSE),
                 ![s].at = now,
                 ![s].pc = IF FindOneChat(sockUser[s], task[s].to, FALSE) = 0
                           THEN "chatCreate" ELSE "chatSave"]
          /\ UNCHANGED events
     ELSE send_catch(s, task[s].msg)
  /\ UNCHANGED <<now, users, messages, chats, onlineUsers, conn, sockUser, rooms,
                 req, msgCount, chatUpdatedFor, saveFailed>>

\* chat.save() of a loaded chat whose lastMessage was set to the new message
ChatWithLastMessage(c, m) == [chats EXCEPT ![c].lastMessage = m]

\* Mutant of send_chatSave: the handler goes on to the emits without the
\* chat having been stored
send_chatSave_notStored(s, dbOk) ==
  /\ task[s].pc = "chatSave"
  /\ task' = [task EXCEPT ![s].pc = "emit"]
  /\ UNCHANGED <<now, users, messages, chats, onlineUsers, conn, sockUser, rooms,
                 req, events, msgCount, chatUpdatedFor, saveFailed>>

send_chatSave(s, dbOk) ==
  /\ task[s].pc = "chatSave"
  /\ IF dbOk
     THEN /\ chats' = ChatWithLastMessage(task[s].chat, task[s].msg)
          /\ chatUpdatedFor' = chatUpdatedFor \cup {task[s].msg}
          /\ task' = [task EXCEPT ![s].pc = "emit"]
          /\ UNCHANGED events
     ELSE /\ send_catch(s, task[s].msg)
          /\ UNCHANGED <<chats, chatUpdatedFor>>
  /\ UNCHANGED <<now, users, messages, onlineUsers, conn, sockUser, rooms, req,
                 msgCount, saveFailed>>

\* new Chat({participants: [socket.userId, to], lastMessage}) and its save();
\* the pre-save hook sorts the participants
send_chatCreate(s, dbOk) ==
  /\ task[s].pc = "chatCreate"
  /\ IF dbOk
     THEN /\ chats' = Append(chats, [participants |-> SortPair(sockUser[s], task[s].to),
                                     lastMessage |-> task[s].msg,
                                     isGroup |-> FALSE,
                                     lastActivity |-> task[s].at])
          /\ chatUpdatedFor' = chatUpdatedFor \cup {task[s].msg}
          /\ task' = [task EXCEPT ![s].pc = "emit", ![s].chat = Len(chats) + 1]
          /\ UNCHANGED events
     ELSE /\ send_catch(s, task[s].msg)
          /\ UNCHANGED <<chats, chatUpdatedFor>>
  /\ UNCHANGED <<now, users, messages, onlineUsers, conn, sockUser, rooms, req,
                 msgCount, saveFailed>>

\* The emits after the chat is stored: message_sent to the sender,
\* new_message to the recipient's registered socket, new_message to the room
send_emit(s) ==
  /\ task[s].pc = "emit"
  /\ events' = events
       \cup {Emit("message_sent", s, task[s].msg, "socket")}
       \cup {Emit("new_message", r, task[s].msg, "direct") :
               r \in DirectRecipients(task[s].to)}
       \cup {Emit("new_message", r, task[s].msg, "room") :
               r \in RoomMembers(task[s].chat)}
  /\ task' = [task EXCEPT ![s] = IdleTask]
  /\ UNCHANGED <<now, users, messages, chats, onlineUsers, conn, sockUser, rooms,
                 req, msgCount, chatUpdatedFor, saveFailed>>

\* ------------------------------------------------------------- REST handlers
\* A request slot is free before its first request and after a response
Free(r) == req[r].pc \in {"idle", "done"}

\* res.status(code).json(...)
Respond(r, code) == req' = [req EXCEPT ![r].pc = "done", ![r].status = code]

\* sendMessage up to the end of `await User.findById(to)`: the self-send
\* check, the recipient lookup, then new Message
sendMessage(r, from, to, chatId, dbOk) ==
  /\ Free(r)
  /\ Authenticated(from)
  /\ msgCount < MaxMsgs
  /\ msgCount' = msgCount + 1
  /\ req' = [req EXCEPT ![r] =
       [pc |-> IF to # from /\ dbOk /\ to \in DOMAIN users THEN "save" ELSE "done",
        kind |-> "send", from |-> from, to |-> to, chatId |-> chatId,
        msg |-> msgCount + 1, chat |-> 0,
        status |-> IF to = from THEN 400
                   ELSE IF ~dbOk THEN 500
                   ELSE IF to \notin DOMAIN users THEN 404 ELSE 0,
        result |-> {}, ts |-> now, at |-> 0]]
  /\ UNCHANGED <<now, users, messages, chats, onlineUsers, conn, sockUser, rooms,
                 task, events, chatUpdatedFor, saveFailed>>

\* `await message.save()`
sendMessage_save(r, dbOk) ==
  /\ req[r].kind = "send" /\ req[r].pc = "save"
  /\ IF dbOk
     THEN /\ messages' = messages \cup
               {NewMessage(req[r].msg, req[r].from, req[r].to, req[r].ts)}
          /\ req' = [req EXCEPT ![r].pc =
               IF req[r].chatId # 0 THEN "findById" ELSE "findOne"]
          /\ UNCHANGED saveFailed
     ELSE /\ saveFailed' = saveFailed \cup {[msg |-> req[r].msg, socket |-> 0]}
          /\ Respond(r, 500)
          /\ UNCHANGED messages
  /\ UNCHANGED <<now, users, chats, onlineUsers, conn, sockUser, rooms, task,
                 events, msgCount, chatUpdatedFor>>

\* `chat = await Chat.findById(chatId)` and the participants check
sendMessage_findById(r, dbOk) ==
  /\ req[r].kind = "send" /\ req[r].pc = "findById"
  /\ IF ~dbOk THEN Respond(r, 500)
     ELSE IF /\ req[r].chatId \in 1..Len(chats)
             /\ {req[r].from, req[r].to} \subseteq Range(chats[req[r].chatId].participants)
          THEN req' = [req EXCEPT ![r].pc = "chatSave", ![r].chat = req[r].chatId,
                                  ![r].at = now]
          ELSE Respond(r, 404)
  /\ UNCHANGED <<now, users, messages, chats, onlineUsers, conn, sockUser, rooms,
                 task, events, msgCount, chatUpdatedFor, saveFailed>>

\* Chat.findOrCreate returned chat c to its caller: sendMessage sets
\* lastMessage and lastActivity = new Date() and goes on to chat.save(),
\* getConversation answers
findOrCreate_return(r, c) ==
  IF req[r].kind = "send"
  THEN req' = [req EXCEPT ![r].pc = "chatSave", ![r].chat = c, ![r].at = now]
  ELSE req' = [req EXCEPT ![r].pc = "done", ![r].chat = c, ![r].status = 200]

\* Chat.findOrCreate: `await this.findOne({participants: {$all}, isGroup: false})`;
\* `at` is the Date.now() of the continuation, the lastActivity default of the
\* chat that this.create constructs
findOrCreate_findOne(r, dbOk) ==
  /\ req[r].pc = "findOne"
  /\ IF ~dbOk THEN Respond(r, 500)
     ELSE IF FindOneChat(req[r].from, req[r].to, TRUE) # 0
          THEN findOrCreate_return(r, FindOneChat(req[r].from, req[r].to, TRUE))
          ELSE req' = [req EXCEPT ![r].pc = "create", ![r].at = now]
  /\ UNCHANGED <<now, users, messages, chats, onlineUsers, conn, sockUser, rooms,
                 task, events, msgCount, chatUpdatedFor, saveFailed>>

\* Chat.findOrCreate: `await this.create({participants, isGroup: false})` with
\* participants = [user1Id, user2Id].sort()
findOrCreate_create(r, dbOk) ==
  /\ req[r].pc = "create"
  /\ IF dbOk
     THEN /\ chats' = Append(chats, [participants |-> SortPair(req[r].from, req[r].to),
                                     lastMessage |-> 0,
                                     isGroup |-> FALSE,
                                     lastActivity |-> req[r].at])
          /\ req' = [req EXCEPT ![r].pc = "reload", ![r].chat = Len(chats) + 1]
     ELSE /\ Respond(r, 500)
          /\ UNCHANGED chats
  /\ UNCHANGED <<now, users, messages, onlineUsers, conn, sockUser, rooms, task,
                 events, msgCount, chatUpdatedFor, saveFailed>>

\* Chat.findOrCreate: `await this.findById(chat._id).populate(...)`
findOrCreate_reload(r, dbOk) ==
  /\ req[r].pc = "reload"
  /\ IF dbOk THEN findOrCreate_return(r, req[r].chat) ELSE Respond(r, 500)
  /\ UNCHANGED <<now, users, messages, chats, onlineUsers, conn, sockUser, rooms,
                 task, events, msgCount, chatUpdatedFor, saveFailed>>

\* chat.save() of a chat whose lastMessage and lastActivity were set
ChatWithLastActivity(c, m, t) ==
  [chats EXCEPT ![c].lastMessage = m, ![c].lastActivity = t]

\* sendMessage: `await chat.save()` of the chat with the lastMessage and the
\* lastActivity set before the call; the two message.populate calls (popOk)
\* and the 201 response
sendMessage_chatSave(r, dbOk, popOk) ==
  /\ req[r].kind = "send" /\ req[r].pc = "chatSave"
  /\ IF dbOk
     THEN /\ chats' = ChatWithLastActivity(req[r].chat, req[r].msg, req[r].at)
          /\ chatUpdatedFor' = chatUpdatedFor \cup {req[r].msg}
          /\ Respond(r, IF popOk THEN 201 ELSE 500)
     ELSE /\ Respond(r, 500)
          /\ UNCHANGED <<chats, chatUpdatedFor>>
  /\ UNCHANGED <<now, users, messages, onlineUsers, conn, sockUser, rooms, task,
                 events, msgCount, saveFailed>>

\* getConversation up to the end of `await User.findById(userId)`
getConversation(r, from, other, dbOk) ==
  /\ Free(r)
  /\ Authenticated(from)
  /\ req' = [req EXCEPT ![r] =
       [pc |-> IF other # from /\ dbOk /\ other \in DOMAIN users THEN "find" ELSE "done",
        kind |-> "conv", from |-> from, to |-> other, chatId |-> 0,
        msg |-> 0, chat |-> 0,
        status |-> IF other = from THEN 400
                   ELSE IF ~dbOk THEN 500
                   ELSE IF other \notin DOMAIN users THEN 404 ELSE 0,
        result |-> {}, ts |-> now, at |-> 0]]
  /\ UNCHANGED <<now, users, messages, chats, onlineUsers, conn, sockUser, rooms,
                 task, events, msgCount, chatUpdatedFor, saveFailed>>

\* The messages between x and y, in either direction, that are not deleted
Conversation(x, y) ==
  {m \in messages : /\ \/ m.sender = x /\ m.receiver = y
                       \/ m.sender = y /\ m.receiver = x
                    /\ ~m.deleted}

\* getConversation: `await Message.find(query)` and the count, then the call
\* of Chat.findOrCreate
getConversation_find(r, dbOk) ==
  /\ req[r].kind = "conv" /\ req[r].pc = "find"
  /\ IF dbOk
     THEN req' = [req EXCEPT ![r].pc = "findOne",
                             ![r].result = Conversation(req[r].from, req[r].to)]
     ELSE Respond(r, 500)
  /\ UNCHANGED <<now, users, messages, chats, onlineUsers, conn, sockUser, rooms,
                 task, events, msgCount, chatUpdatedFor, saveFailed>>

\* ------------------------------------------------------------- edit, delete
\* editWindow of updateMessage, in minutes
EditWindow == 15

\* A request of the given kind about message m that is at its store call
NewReq(kind, from, m, pc, status) ==
  [IdleReq EXCEPT !.kind = kind, !.from = from, !.msg = m, !.pc = pc,
                  !.status = status, !.ts = now]

\* Message.findOne({_id: m, sender: from, deleted: false}) finds a document
OwnLiveMessage(from, m) ==
  HasMessage(m) /\ MessageById(m).sender = from /\ ~MessageById(m).deleted

\* Message.findOne({_id: m, $or: [{sender: u}, {receiver: u}], deleted: false})
\* finds a document
PartyLiveMessage(u, m) ==
  /\ HasMessage(m)
  /\ u \in {MessageById(m).sender, MessageById(m).receiver}
  /\ ~MessageById(m).deleted

\* messageAge > editWindow, with Date.now() = now
WindowExpired(m) == now - MessageById(m).timestamp > EditWindow

\* Mutant of updateMessage: the edit window is not tested
updateMessage_noWindow(r, from, m, dbOk) ==
  /\ Free(r)
  /\ Authenticated(from)
  /\ req' = [req EXCEPT ![r] =
       IF ~dbOk THEN NewReq("edit", from, m, "done", 500)
       ELSE IF ~OwnLiveMessage(from, m) THEN NewReq("edit", from, m, "done", 404)
       ELSE NewReq("edit", from, m, "save", 0)]
  /\ UNCHANGED <<now, users, messages, chats, onlineUsers, conn, sockUser, rooms,
                 task, events, msgCount, chatUpdatedFor, saveFailed>>

\* updateMessage up to `await message.save()`: the lookup of the caller's own
\* undeleted message, the edit window, the new content, edited flag and
\* editedAt = new Date() on the loaded document
updateMessage(r, from, m, dbOk) ==
  /\ Free(r)
  /\ Authenticated(from)
  /\ req' = [req EXCEPT ![r] =
       IF ~dbOk THEN NewReq("edit", from, m, "done", 500)
       ELSE IF ~OwnLiveMessage(from, m) THEN NewReq("edit", from, m, "done", 404)
       ELSE IF WindowExpired(m) THEN NewReq("edit", from, m, "done", 400)
       ELSE NewReq("edit", from, m, "save", 0)]
  /\ UNCHANGED <<now, users, messages, chats, onlineUsers, conn, sockUser, rooms,
                 task, events, msgCount, chatUpdatedFor, saveFailed>>

\* updateMessage after `await message.save()`: the two populate calls (popOk)
\* and the response
updateMessage_save(r, dbOk, popOk) ==
  /\ req[r].kind = "edit" /\ req[r].pc = "save"
  /\ IF dbOk
     THEN /\ messages' = StoreMessage([MessageById(req[r].msg) EXCEPT
                             !.content = "edited", !.edited = TRUE,
                             !.editedAt = req[r].ts])
          /\ Respond(r, IF popOk THEN 200 ELSE 500)
     ELSE /\ Respond(r, 500)
          /\ UNCHANGED messages
  /\ UNCHANGED <<now, users, chats, onlineUsers, conn, sockUser, rooms, task,
                 events, msgCount, chatUpdatedFor, saveFailed>>

\* Mutant of deleteMessage: the lookup does not filter on the caller
deleteMessage_anyRequester(r, from, m, dbOk) ==
  /\ Free(r)
  /\ Authenticated(from)
  /\ req' = [req EXCEPT ![r] =
       IF ~dbOk THEN NewReq("delete", from, m, "done", 500)
       ELSE IF ~(HasMessage(m) /\ ~MessageById(m).deleted)
            THEN NewReq("delete", from, m, "done", 404)
       ELSE NewReq("delete", from, m, "save", 0)]
  /\ UNCHANGED <<now, users, messages, chats, onlineUsers, conn, sockUser, rooms,
                 task, events, msgCount, chatUpdatedFor, saveFailed>>

\* deleteMessage up to `await message.save()`: the lookup of an undeleted
\* message the caller sent or received, deleted = true on the loaded document
deleteMessage(r, from, m, dbOk) ==
  /\ Free(r)
  /\ Authenticated(from)
  /\ req' = [req EXCEPT ![r] =
       IF ~dbOk THEN NewReq("delete", from, m, "done", 500)
       ELSE IF ~PartyLiveMessage(from, m) THEN NewReq("delete", from, m, "done", 404)
       ELSE NewReq("delete", from, m, "save", 0)]
  /\ UNCHANGED <<now, users, messages, chats, onlineUsers, conn, sockUser, rooms,
                 task, events, msgCount, chatUpdatedFor, saveFailed>>

\* Mutant of deleteMessage_save: the document is removed from the collection
deleteMessage_save_removes(r, dbOk) ==
  /\ req[r].kind = "delete" /\ req[r].pc = "save"
  /\ IF dbOk
     THEN /\ messages' = {x \in messages : x.id # req[r].msg}
          /\ Respond(r, 200)
     ELSE /\ Respond(r, 500)
          /\ UNCHANGED messages
  /\ UNCHANGED <<now, users, chats, onlineUsers, conn, sockUser, rooms, task,
                 events, msgCount, chatUpdatedFor, saveFailed>>

\* deleteMessage after `await message.save()`
deleteMessage_save(r, dbOk) ==
  /\ req[r].kind = "delete" /\ req[r].pc = "save"
  /\ IF dbOk
     THEN /\ messages' = StoreMessage([MessageById(req[r].msg) EXCEPT
                                         !.deleted = TRUE,
                                         !.deletedAt = req[r].ts])
          /\ Respond(r, 200)
     ELSE /\ Respond(r, 500)
          /\ UNCHANGED messages
  /\ UNCHANGED <<now, users, chats, onlineUsers, conn, sockUser, rooms, task,
                 events, msgCount, chatUpdatedFor, saveFailed>>

\* ------------------------------------------------------------- read paths
\* A response that carries the documents in `docs`
RespondWith(r, kind, from, m, code, docs) ==
  req' = [req EXCEPT ![r] =
            [NewReq(kind, from, m, "done", code) EXCEPT !.result = docs]]

\* getMessage: the lookup of an undeleted message the caller sent or received
getMessage(r, from, m, dbOk) ==
  /\ Free(r)
  /\ Authenticated(from)
  /\ IF ~dbOk THEN RespondWith(r, "get", from, m, 500, {})
     ELSE IF ~PartyLiveMessage(from, m) THEN RespondWith(r, "get", from, m, 404, {})
     ELSE RespondWith(r, "get", from, m, 200, {MessageById(m)})
  /\ UNCHANGED <<now, users, messages, chats, onlineUsers, conn, sockUser, rooms,
                 task, events, msgCount, chatUpdatedFor, saveFailed>>

\* Message.countDocuments({receiver, isRead: false, deleted: false}): the
\* documents counted
UnreadOf(u) == {x \in messages : x.receiver = u /\ ~x.isRead /\ ~x.deleted}

getUnreadCount(r, from, dbOk) ==
  /\ Free(r)
  /\ Authenticated(from)
  /\ IF dbOk THEN RespondWith(r, "unread", from, 0, 200, UnreadOf(from))
     ELSE RespondWith(r, "unread", from, 0, 500, {})
  /\ UNCHANGED <<now, users, messages, chats, onlineUsers, conn, sockUser, rooms,
                 task, events, msgCount, chatUpdatedFor, saveFailed>>

\* Chat.find({participants: u}).populate('lastMessage'): the documents the
\* populate puts into the caller's chats
LastMessagesOf(u) ==
  {x \in messages : \E i \in 1..Len(chats) :
      u \in Range(chats[i].participants) /\ chats[i].lastMessage = x.id}

\* getChats up to the end of `await Chat.find(query)...populate(...)`
getChats(r, from, dbOk) ==
  /\ Free(r)
  /\ Authenticated(from)
  /\ req' = [req EXCEPT ![r] =
       IF dbOk
       THEN [NewReq("chats", from, 0, "count", 0) EXCEPT !.result = LastMessagesOf(from)]
       ELSE NewReq("chats", from, 0, "done", 500)]
  /\ UNCHANGED <<now, users, messages, chats, onlineUsers, conn, sockUser, rooms,
                 task, events, msgCount, chatUpdatedFor, saveFailed>>

\* getChats after its countDocuments calls: the response with the chats
getChats_count(r, dbOk) ==
  /\ req[r].kind = "chats" /\ req[r].pc = "count"
  /\ IF dbOk THEN Respond(r, 200)
     ELSE req' = [req EXCEPT ![r].pc = "done", ![r].status = 500, ![r].result = {}]
  /\ UNCHANGED <<now, users, messages, chats, onlineUsers, conn, sockUser, rooms,
                 task, events, msgCount, chatUpdatedFor, saveFailed>>

\* ------------------------------------------------------------- mark read
\* The documents the filter of markAsRead matches.  With messageIds:
\* {_id: {$in}, receiver, isRead: false}.  With a chatId only:
\* {chat, receiver, isRead: false}, where the Message schema has no `chat`
\* path: mongoose drops the condition (strictQuery) or keeps it, and then no
\* document matches.
MarkReadMatches(from, ids, strictQuery) ==
  IF ids # {}
  THEN {x \in messages : x.id \in ids /\ x.receiver = from /\ ~x.isRead}
  ELSE IF strictQuery
       THEN {x \in messages : x.receiver = from /\ ~x.isRead}
       ELSE {}

\* Message.updateMany(query, {isRead: true, readAt: new Date()})
MarkedRead(docs) ==
  {IF x \in docs THEN [x EXCEPT !.isRead = TRUE, !.readAt = now] ELSE x :
     x \in messages}

\* Mutant of markAsRead: the filter has no receiver condition
markAsRead_anyCaller(r, from, ids, chatId, strictQuery, dbOk) ==
  /\ Free(r)
  /\ Authenticated(from)
  /\ IF ids = {} /\ chatId = 0
     THEN RespondWith(r, "markRead", from, 0, 400, {}) /\ UNCHANGED messages
     ELSE IF ~dbOk
     THEN RespondWith(r, "markRead", from, 0, 500, {}) /\ UNCHANGED messages
     ELSE /\ messages' = MarkedRead({x \in messages : x.id \in ids /\ ~x.isRead})
          /\ RespondWith(r, "markRead", from, 0, 200, {})
  /\ UNCHANGED <<now, users, chats, onlineUsers, conn, sockUser, rooms, task,
                 events, msgCount, chatUpdatedFor, saveFailed>>

\* markAsRead: the parameter check, the updateMany and the response with the
\* count; messageIds is the set `ids` ({}: absent), chatId is 0 when absent
markAsRead(r, from, ids, chatId, strictQuery, dbOk) ==
  /\ Free(r)
  /\ Authenticated(from)
  /\ IF ids = {} /\ chatId = 0
     THEN RespondWith(r, "markRead", from, 0, 400, {}) /\ UNCHANGED messages
     ELSE IF ~dbOk
     THEN RespondWith(r, "markRead", from, 0, 500, {}) /\ UNCHANGED messages
     ELSE /\ messages' = MarkedRead(MarkReadMatches(from, ids, strictQuery))
          /\ RespondWith(r, "markRead", from, 0, 200,
                         MarkReadMatches(from, ids, strictQuery))
  /\ UNCHANGED <<now, users, chats, onlineUsers, conn, sockUser, rooms, task,
                 events, msgCount, chatUpdatedFor, saveFailed>>

\* ------------------------------------------------------------- search
\* The search strings a client sends
Queries == {"hi", "h", "zz"}

\* query.trim().length
QueryLength(q) == IF q = "h" THEN 1 ELSE 2

\* {content: {$regex: query, $options: 'i'}} on a stored content
ContentMatches(content, q) == content = "hi" /\ q \in {"hi", "h"}

\* The documents of Message.find(searchQuery)
SearchOf(u, q) ==
  {x \in messages : /\ u \in {x.sender, x.receiver}
                    /\ ~x.deleted
                    /\ ContentMatches(x.content, q)}

\* searchMessages: the length check, then the find and the count
searchMessages(r, from, q, dbOk) ==
  /\ Free(r)
  /\ Authenticated(from)
  /\ IF QueryLength(q) < 2 THEN RespondWith(r, "search", from, 0, 400, {})
     ELSE IF ~dbOk THEN RespondWith(r, "search", from, 0, 500, {})
     ELSE RespondWith(r, "search", from, 0, 200, SearchOf(from, q))
  /\ UNCHANGED <<now, users, messages, chats, onlineUsers, conn, sockUser, rooms,
                 task, events, msgCount, chatUpdatedFor, saveFailed>>

\* ------------------------------------------------------------- router
\* The GET routes of the messages router in the order of their registration;
\* a path is the sequence of its segments below /api/messages
\* and the schema each route hands to validate (Nil: no validation step)
GetRoutes ==
  << [path |-> <<"conversation", ":userId">>, schema |-> "getMessages",
      handler |-> "getConversation"],
     [path |-> <<"chats">>, schema |-> "getChats", handler |-> "getChats"],
     [path |-> <<":id">>, schema |-> Nil, handler |-> "getMessage"],
     [path |-> <<"search">>, schema |-> Nil, handler |-> "searchMessages"],
     [path |-> <<"unread", "count">>, schema |-> Nil,
      handler |-> "getUnreadCount"] >>

\* The schemas the objects messageValidation and userValidation define
MessageValidation == {"sendMessage", "getMessages", "updateMessage", "typing"}

UserValidation ==
  {"register", "login", "updateProfile", "changePassword", "forgotPassword",
   "resetPassword"}

\* validate(schemas.key) on a well-formed request: next() is called, or, for
\* a key the object does not define, `schema.validate` throws a TypeError on
\* undefined and express answers 500
validate(schemas, key) ==
  IF key = Nil \/ key \in schemas THEN "next" ELSE "throws"

\* A route segment that is a parameter matches any one path segment
IsParam(seg) == seg \in {":id", ":userId"}

RouteMatches(pattern, path) ==
  /\ Len(pattern) = Len(path)
  /\ \A i \in 1..Len(pattern) : IsParam(pattern[i]) \/ pattern[i] = path[i]

\* express runs the handler of the first registered route the path matches
Route(path) ==
  GetRoutes[Min({i \in 1..Len(GetRoutes) : RouteMatches(GetRoutes[i].path, path)})]

Dispatch(path) ==
  IF \A i \in 1..Len(GetRoutes) : ~RouteMatches(GetRoutes[i].path, path)
  THEN "none"
  ELSE IF validate(MessageValidation, Route(path).schema) = "throws"
  THEN "error"
  ELSE Route(path).handler

\* The paths of the GET requests a client sends
GetPaths ==
  {<<"search">>, <<"unread", "count">>, <<"chats">>, <<"1">>, <<"2">>,
   <<"conversation", "b">>, <<"unread">>, <<"search", "all">>}

\* Mongoose casts the _id of a filter to an ObjectId: the id of a document,
\* or 0 for a string that is no ObjectId (the query then throws a CastError)
CastId(seg) == IF seg = "1" THEN 1 ELSE IF seg = "2" THEN 2 ELSE 0

\* A response made outside the handlers: express's 404 and 500
RespondOutside(r, from, code) ==
  /\ Free(r)
  /\ Authenticated(from)
  /\ RespondWith(r, "none", from, 0, code, {})
  /\ UNCHANGED <<now, users, messages, chats, onlineUsers, conn, sockUser, rooms,
                 task, events, msgCount, chatUpdatedFor, saveFailed>>

\* A GET request below /api/messages of the authenticated user `from`: the
\* handler the router dispatches to runs up to its first await.  getMessage
\* with an id that is no ObjectId ends in its catch block with 500.
router_get(r, from, path, dbOk) ==
  IF Dispatch(path) = "getMessage"
  THEN IF CastId(path[1]) = 0
       THEN /\ Free(r)
            /\ Authenticated(from)
            /\ RespondWith(r, "get", from, 0, 500, {})
            /\ UNCHANGED <<now, users, messages, chats, onlineUsers, conn,
                           sockUser, rooms, task, events, msgCount,
                           chatUpdatedFor, saveFailed>>
       ELSE getMessage(r, from, CastId(path[1]), dbOk)
  ELSE IF Dispatch(path) = "searchMessages"
  THEN \E q \in Queries : searchMessages(r, from, q, dbOk)
  ELSE IF Dispatch(path) = "getUnreadCount" THEN getUnreadCount(r, from, dbOk)
  ELSE IF Dispatch(path) = "getChats" THEN getChats(r, from, dbOk)
  ELSE IF Dispatch(path) = "getConversation"
  THEN getConversation(r, from, path[2], dbOk)
  ELSE IF Dispatch(path) = "error" THEN RespondOutside(r, from, 500)
  ELSE RespondOutside(r, from, 404)

\* ------------------------------------------------------------- refresh token
\* The refresh tokens a client sends: none, one that jwt.verify rejects, an
\* expired one, or a valid one naming a user id
RefreshTokens == {"none", "bad", "expired", "g"} \cup ExistingUsers

\* refreshToken: the presence check, verifyToken, User.findById, the
\* isActive check, generateToken and the response with the access token
refreshToken(r, token, dbOk) ==
  /\ Free(r)
  /\ req' = [req EXCEPT ![r] =
       IF token = "none" THEN NewReq("refresh", Nil, 0, "done", 400)
       ELSE IF token \in {"bad", "expired"} \/ ~dbOk
            THEN NewReq("refresh", Nil, 0, "done", 401)
       ELSE IF token \notin DOMAIN users THEN NewReq("refresh", token, 0, "done", 401)
       ELSE IF ~users[token].isActive THEN NewReq("refresh", token, 0, "done", 403)
       ELSE NewReq("refresh", token, 0, "done", 200)]
  /\ UNCHANGED <<now, users, messages, chats, onlineUsers, conn, sockUser, rooms,
                 task, events, msgCount, chatUpdatedFor, saveFailed>>

\* POST /api/auth/refresh-token: validate(userValidation.refreshToken), then
\* the controller
post_refreshToken(r, token, dbOk) ==
  IF validate(UserValidation, "refreshToken") = "throws"
  THEN /\ Free(r)
       /\ req' = [req EXCEPT ![r] = NewReq("none", Nil, 0, "done", 500)]
       /\ UNCHANGED <<now, users, messages, chats, onlineUsers, conn, sockUser,
                      rooms, task, events, msgCount, chatUpdatedFor, saveFailed>>
  ELSE refreshToken(r, token, dbOk)

\* ------------------------------------------------------------- properties
PersistedIds == {m.id : m \in messages}

MessageEvents == {e \in events : e.type \in {"message_sent", "new_message"}}

\* The connections of user u that completed the handshake and are open
LiveSocketsOf(u) == {r \in Sockets : conn[r] = "connected" /\ sockUser[r] = u}

\* The non-group chats whose participants are exactly x and y
PairChats(x, y) ==
  {i \in 1..Len(chats) : ~chats[i].isGroup /\ Range(chats[i].participants) = {x, y}}

\* No connection of user u is inside its handshake or its disconnect handler
Settled(u) ==
  \A r \in Sockets : sockUser[r] = u => conn[r] \in {"connected", "closed", "rejected"}

\* Socket s takes the emit step of its send_message handler
EmitStep(s) == task[s].pc = "emit" /\ task'[s].pc = "idle"

\* C1: a disconnect handler removes or changes a registry entry only when the
\* entry's socket is the disconnecting socket; the entry a newer connection
\* registered survives the disconnect of the connection it superseded.
C1_StaleDisconnectKeepsEntry ==
  [][\A s \in Sockets :
       (conn[s] = "closing" /\ conn'[s] = "closed") =>
         \A u \in UserIds :
           (Online(u) /\ onlineUsers[u].socketId # s) =>
             onlineUsers'[u] = onlineUsers[u]]_vars

\* C2: a chat is updated for a message only after the message is persisted,
\* message_sent / new_message for a message are emitted only after a chat
\* update for it completed, and every such event names a persisted message.
C2_PersistThenChatThenEmit ==
  [][/\ \A m \in chatUpdatedFor' \ chatUpdatedFor : m \in PersistedIds
     /\ \A e \in MessageEvents' \ MessageEvents :
          e.msg \in PersistedIds /\ e.msg \in chatUpdatedFor
     /\ \A e \in MessageEvents' : e.msg \in PersistedIds']_vars

C2_Witness ==
  \E e \in events, f \in events :
    /\ e.type = "message_sent" /\ f.type = "new_message" /\ e.msg = f.msg
    /\ e.msg \in PersistedIds /\ e.msg \in chatUpdatedFor

\* C3: for two distinct identities there is at most one non-group chat of
\* exactly these two, and exactly one once a send between them without chatId
\* was answered with success.
C3_OneChatPerPair ==
  \A x \in UserIds, y \in UserIds :
    x # y =>
      /\ Cardinality(PairChats(x, y)) <= 1
      /\ (\E r \in Reqs : /\ req[r].kind = "send" /\ req[r].status = 201
                          /\ req[r].chatId = 0 /\ {req[r].from, req[r].to} = {x, y})
           => Cardinality(PairChats(x, y)) = 1
      /\ (\E e \in events, m \in messages :
             /\ e.type = "message_sent" /\ e.msg = m.id
             /\ {m.sender, m.receiver} = {x, y})
           => Cardinality(PairChats(x, y)) >= 1

\* C4: a connection whose handshake was rejected has no entry in the registry.
C4_RejectedLeavesNoEntry ==
  \A s \in Sockets :
    conn[s] = "rejected" => \A u \in UserIds : onlineUsers[u].socketId # s

\* C5: no Message has its sender as receiver, no Chat has one identity as both
\* participants, and a REST send to oneself is answered 400.
C5_SelfSendRejected ==
  /\ \A m \in messages : m.sender # m.receiver
  /\ \A i \in 1..Len(chats) : chats[i].participants[1] # chats[i].participants[2]
  /\ \A r \in Reqs :
       (req[r].kind = "send" /\ req[r].pc = "done" /\ req[r].from = req[r].to)
         => req[r].status = 400

\* C6: when the recipient of a send from another identity has one connection
\* that completed the handshake and is open, and none that is still connecting
\* or disconnecting, the emit step of the send delivers new_message for the
\* message to that connection.
C6_LiveRecipientGetsMessage ==
  [][\A s \in Sockets :
       (/\ EmitStep(s)
        /\ sockUser[s] # task[s].to
        /\ Settled(task[s].to)
        /\ Cardinality(LiveSocketsOf(task[s].to)) = 1) =>
         \A r \in LiveSocketsOf(task[s].to) :
           \E e \in events' :
             e.type = "new_message" /\ e.to = r /\ e.msg = task[s].msg]_vars

\* C7: when the recipient has no registry entry at the emit step of a send
\* from another identity, the message is stored unread, message_sent goes to
\* the sender and no connection of the recipient gets new_message for it; and
\* new_message for a message is emitted by that emit step only, never later.
C7_AbsentRecipientGetsNothing ==
  [][/\ \A s \in Sockets :
          (EmitStep(s) /\ sockUser[s] # task[s].to /\ ~Online(task[s].to)) =>
            /\ \E m \in messages : m.id = task[s].msg /\ ~m.isRead
            /\ Emit("message_sent", s, task[s].msg, "socket") \in events'
            /\ \A e \in events' :
                 (e.type = "new_message" /\ e.msg = task[s].msg)
                   => sockUser[e.to] # task[s].to
     /\ \A e \in MessageEvents' \ MessageEvents :
          \E s \in Sockets : EmitStep(s) /\ task[s].msg = e.msg]_vars

\* C8: a send whose message.save() failed produces exactly one event, the
\* error to the sending socket; no chat references its message, its handler
\* has ended, and the step in which the save fails leaves every chat as it was.
C8_FailedSaveInv ==
  \A f \in saveFailed :
    /\ f.msg \notin PersistedIds
    /\ f.msg \notin chatUpdatedFor
    /\ \A i \in 1..Len(chats) : chats[i].lastMessage # f.msg
    /\ \A s \in Sockets : task[s].msg # f.msg
    /\ {e \in events : e.msg = f.msg} =
         IF f.socket = 0 THEN {}
         ELSE {ErrorTo(f.socket, "SEND_MESSAGE_FAILED", f.msg)}

C8_FailedSaveEmitsOnlyError ==
  []C8_FailedSaveInv /\ [][saveFailed' # saveFailed => chats' = chats]_vars

C8_Witness ==
  \E f \in saveFailed :
    f.socket # 0 /\ ErrorTo(f.socket, "SEND_MESSAGE_FAILED", f.msg) \in events

\* C9: every stored Message has a receiver that is an existing, active user,
\* and every Chat has only existing, active users as participants.
C9_RecipientMustExist ==
  /\ \A m \in messages : Authenticated(m.receiver)
  /\ \A i \in 1..Len(chats) : \A u \in Range(chats[i].participants) : Authenticated(u)

\* C10: a send that names a chat gets past the chat lookup (to the chat update
\* and the emits) only if that chat exists and has both the sender and the
\* recipient among its participants.
C10_ChatIdNeedsBothParticipants ==
  /\ \A s \in Sockets :
       (task[s].chatId # 0 /\ task[s].pc \in {"chatSave", "emit"}) =>
         /\ task[s].chatId \in 1..Len(chats)
         /\ {sockUser[s], task[s].to} \subseteq Range(chats[task[s].chatId].participants)
  /\ \A r \in Reqs :
       (req[r].kind = "send" /\ req[r].chatId # 0 /\ req[r].pc = "chatSave") =>
         /\ req[r].chatId \in 1..Len(chats)
         /\ {req[r].from, req[r].to} \subseteq Range(chats[req[r].chatId].participants)

\* C11: a handshake gets past the user lookup, where it registers the
\* connection in onlineUsers and goes on towards the user_online broadcast,
\* only for a user whose isActive flag is true.
C11_InactiveRejectedAtConnect ==
  [][\A s \in Sockets :
       (conn[s] = "new" /\ conn'[s] = "auth") =>
         users[sockUser'[s]].isActive]_vars

\* C12: onlineUsers is a Map keyed by user id, so it holds one entry per
\* identity at most; every entry names a connection of that identity; and a
\* handshake that registers connection s for identity X leaves X mapped to s,
\* whatever entry X had, and leaves every other identity's entry alone.
C12_EntryNamesOwnSocket ==
  \A u \in UserIds :
    Online(u) => /\ onlineUsers[u].socketId \in Sockets
                 /\ sockUser[onlineUsers[u].socketId] = u

C12_RegisterReplacesEntry ==
  /\ []C12_EntryNamesOwnSocket
  /\ [][\A s \in Sockets :
          (conn[s] = "new" /\ conn'[s] = "auth") =>
            /\ onlineUsers'[sockUser'[s]].socketId = s
            /\ \A u \in UserIds \ {sockUser'[s]} : onlineUsers'[u] = onlineUsers[u]]_vars

C12_Witness ==
  \E s1 \in Sockets, s2 \in Sockets :
    /\ s1 < s2 /\ sockUser[s1] = sockUser[s2] /\ sockUser[s1] # Nil
    /\ conn[s1] = "connected" /\ conn[s2] \in {"auth", "connected"}
    /\ onlineUsers[sockUser[s2]].socketId = s2

\* C13: the update_status handler of a connection changes no registry entry
\* that names another connection: once a newer connection of the identity is
\* registered, the older connection's update_status leaves the entry's handle
\* and status as they are.  (The disconnect half of the sentence is C1.)
C13_SupersededStatusKeepsEntry ==
  [][\A s \in Sockets :
       (task[s].pc = "status" /\ task'[s].pc = "idle") =>
         \A u \in UserIds :
           (Online(u) /\ onlineUsers[u].socketId # s) =>
             onlineUsers'[u] = onlineUsers[u]]_vars

\* Connection s is the one the registry holds for its identity
Registered(s) ==
  sockUser[s] \in UserIds /\ onlineUsers[sockUser[s]].socketId = s

\* C14: when the registered connection of an identity is disconnecting, then
\* eventually the registry no longer holds that connection for the identity
\* (the entry is removed, or a newer connection has replaced it), whether
\* the status write of the disconnect handler succeeds or fails.
C14_DisconnectEventuallyRemoves ==
  \A s \in Sockets :
    (conn[s] = "closing" /\ Registered(s)) ~> ~Registered(s)

\* No handshake, no disconnect handler and no event handler is in flight
Quiescent ==
  \A s \in Sockets : conn[s] \notin {"auth", "closing"} /\ task[s].pc = "idle"

\* C15: when no handler is in flight, a user's stored status is 'offline'
\* exactly when the user has no connection that completed the handshake and
\* is still open.
C15_StatusMatchesConnections ==
  Quiescent =>
    \A u \in ExistingUsers :
      (users[u].status = "offline") <=> (LiveSocketsOf(u) = {})

\* Socket s is the connection of the receiver of the stored message m
ReaderOf(s, m) == HasMessage(m) /\ MessageById(m).receiver = sockUser[s]

\* C16: a read_receipt handler whose socket is not the receiver's ends at the
\* lookup with the store and the events as they were; and a message's read
\* flag or read timestamp changes, or a message_read event for it is
\* emitted, only in the save step of a read_receipt of its receiver.
C16_ReadReceiptOnlyByReceiver ==
  [][/\ \A s \in Sockets :
          (task[s].pc = "readFind" /\ task'[s].pc # "readFind"
             /\ ~ReaderOf(s, task[s].msg)) =>
            task'[s] = IdleTask /\ messages' = messages /\ events' = events
     /\ \A m \in messages :
          (\/ \E x \in messages' :
                x.id = m.id /\ (x.isRead # m.isRead \/ x.readAt # m.readAt)
           \/ \E e \in events' \ events : e.type = "message_read" /\ e.msg = m.id)
            => \E s \in Sockets : /\ task[s].pc = "readSave" /\ task'[s].pc = "idle"
                                  /\ task[s].msg = m.id /\ ReaderOf(s, m.id)]_vars

C16_Witness ==
  \E s \in Sockets :
    /\ task[s].pc = "readFind" /\ conn[s] = "connected"
    /\ HasMessage(task[s].msg) /\ MessageById(task[s].msg).sender = sockUser[s]
    /\ ~ReaderOf(s, task[s].msg)
    /\ task[s].chatId \in 1..Len(chats) /\ RoomMembers(task[s].chatId) # {}

\* C17: every message_read event names a message that is stored as read with
\* a readAt not before its timestamp; and the save step of a read_receipt
\* that stores the message as read emits message_read for it to the socket
\* the registry holds for the message's sender, when it holds one.
C17_ReadEventsArePersisted ==
  \A e \in events :
    e.type = "message_read" =>
      /\ HasMessage(e.msg)
      /\ MessageById(e.msg).isRead
      /\ MessageById(e.msg).readAt >= MessageById(e.msg).timestamp

C18_NoErrorEvents == \A e \in events : e.type # "error"

CanEdit(from, m) == OwnLiveMessage(from, m) /\ ~WindowExpired(m)

\* C19: an edit gets past its checks exactly when the requester sent the
\* message, the message is not deleted and its age is at most EditWindow
\* minutes (a store failure aside); an edit that does not get past them is
\* answered with an error; a message's content, edited flag and editedAt
\* change only in the save step of an edit that got past them; and an edit
\* answered 200 has stored them.
C19_EditOnlyBySenderInWindow ==
  [][/\ \A r \in Reqs :
          (Free(r) /\ req'[r].kind = "edit" /\ req'[r] # req[r]) =>
            /\ req'[r].pc = "save" => CanEdit(req'[r].from, req'[r].msg)
            /\ req'[r].pc # "save" =>
                 /\ req'[r].pc = "done" /\ req'[r].status \in {400, 404, 500}
                 /\ req'[r].status # 500 => ~CanEdit(req'[r].from, req'[r].msg)
                 /\ messages' = messages
     /\ \A x \in messages, y \in messages' :
          (/\ x.id = y.id
           /\ <<x.content, x.edited, x.editedAt>> # <<y.content, y.edited, y.editedAt>>) =>
            \E r \in Reqs : /\ req[r].kind = "edit" /\ req[r].pc = "save"
                             /\ req'[r].pc = "done" /\ req[r].msg = x.id
                             /\ req[r].from = x.sender
     /\ \A r \in Reqs :
          (req[r].kind = "edit" /\ req[r].pc = "save" /\ req'[r].status = 200) =>
            \E y \in messages' :
              /\ y.id = req[r].msg /\ y.edited /\ y.content = "edited"
              /\ y.editedAt = req[r].ts
              /\ y.editedAt - y.timestamp <= EditWindow]_vars

C19_Witness ==
  \E r1 \in Reqs, r2 \in Reqs :
    /\ req[r1].kind = "edit" /\ req[r1].status = 200
    /\ req[r2].kind = "edit" /\ req[r2].status = 400
    /\ req[r1].msg = req[r2].msg
    /\ MessageById(req[r1].msg).edited
    /\ MessageById(req[r1].msg).editedAt - MessageById(req[r1].msg).timestamp = EditWindow

C21_MessagesNeverRemoved ==
  [][\A m \in messages :
       \E x \in messages' :
         /\ x.id = m.id /\ x.sender = m.sender
         /\ x.receiver = m.receiver /\ x.timestamp = m.timestamp]_vars

C21_Witness ==
  /\ \E m \in messages : m.deleted
  /\ \E s \in Sockets :
       /\ conn[s] \in {"closing", "closed"}
       /\ task[s].pc \in {"findOne", "chatCreate", "chatSave", "emit"}
       /\ HasMessage(task[s].msg)

\* C22: a delete request gets past its lookup only when the requester is the
\* sender or the receiver of the undeleted message; any other request is
\* answered 404 (500 on a store failure) and leaves the messages as they
\* were; and a message's deleted flag changes only in the save step of a
\* delete requested by its sender or its receiver.
C22_DeleteOnlyByParticipant ==
  [][/\ \A r \in Reqs :
          (Free(r) /\ req'[r].kind = "delete" /\ req'[r] # req[r]) =>
            /\ req'[r].pc = "save" => PartyLiveMessage(req'[r].from, req'[r].msg)
            /\ req'[r].pc # "save" =>
                 /\ req'[r].pc = "done" /\ req'[r].status \in {404, 500}
                 /\ messages' = messages
            /\ ~PartyLiveMessage(req'[r].from, req'[r].msg) => req'[r].pc = "done"
     /\ \A x \in messages, y \in messages' :
          (x.id = y.id /\ x.deleted # y.deleted) =>
            \E r \in Reqs : /\ req[r].kind = "delete" /\ req[r].pc = "save"
                             /\ req'[r].pc = "done" /\ req[r].msg = x.id
                             /\ req[r].from \in {x.sender, x.receiver}]_vars

C22_Witness ==
  \E r1 \in Reqs, r2 \in Reqs :
    /\ req[r1].kind = "delete" /\ req[r1].status = 404
    /\ HasMessage(req[r1].msg)
    /\ req[r1].from \notin {MessageById(req[r1].msg).sender,
                             MessageById(req[r1].msg).receiver}
    /\ req[r2].kind = "delete" /\ req[r2].status = 200
    /\ req[r2].from = MessageById(req[r2].msg).receiver
    /\ MessageById(req[r2].msg).deleted

\* C23: a connection gains a chat room only when that chat exists and lists
\* the connection's user; a join_chat that ends for a missing chat or for a
\* user who is no participant changes no membership, emits nothing and
\* leaves the connection open and idle.
C23_JoinOnlyForParticipants ==
  [][\A s \in Sockets :
       /\ \A c \in rooms'[s] \ rooms[s] : IsParticipant(s, c)
       /\ (task[s].pc = "join" /\ task'[s].pc # "join"
             /\ ~IsParticipant(s, task[s].chatId)) =>
            /\ rooms' = rooms /\ events' = events
            /\ conn'[s] = conn[s] /\ task'[s] = IdleTask]_vars

C23_Witness ==
  \E s1 \in Sockets, s2 \in Sockets, s3 \in Sockets :
    /\ 1 \in rooms[s1]
    /\ conn[s2] = "connected" /\ task[s2].pc = "join" /\ task[s2].chatId = 1
    /\ sockUser[s2] \notin Range(chats[1].participants)
    /\ conn[s3] = "connected" /\ task[s3].pc = "join"
    /\ task[s3].chatId \notin 1..Len(chats)

\* A step of one of the handlers registered on socket s
SocketStep(s) ==
  \/ \E to \in Recipients, content \in Contents, c \in {0} \cup ChatIds,
        ok \in BOOLEAN : send_message(s, to, content, c, ok)
  \/ \E ok \in BOOLEAN :
        \/ send_findById(s, ok) \/ send_findOne(s, ok)
        \/ send_chatSave(s, ok) \/ send_chatCreate(s, ok)
        \/ join_chat_findById(s, ok)
        \/ read_findById(s, ok) \/ read_save(s, ok)
        \/ update_status_update(s, ok)
  \/ send_emit(s)

\* C24: every error event a step emits comes from a handler of one socket
\* and is addressed to that socket alone, whichever of send_message,
\* join_chat, read_receipt and update_status failed.
C24_ErrorsOnlyToOrigin ==
  [][\A e \in events' \ events :
       e.type = "error" =>
         /\ \E s \in Sockets : SocketStep(s)
         /\ \A s \in Sockets : SocketStep(s) => e.to = s]_vars

C24_Witness ==
  \E e \in events, s \in Sockets :
    /\ e.type = "error" /\ e.via = "SEND_MESSAGE_FAILED"
    /\ HasMessage(e.msg)
    /\ s # e.to /\ conn[s] = "connected" /\ rooms[s] # {}
    /\ sockUser[s] = MessageById(e.msg).receiver

\* The checks of a send in flight on socket s: another, existing and active
\* recipient, and no chat id or the id of a chat of both parties
ChecksPassed(s) ==
  /\ task[s].to \in DOMAIN users /\ users[task[s].to].isActive
  /\ task[s].to # sockUser[s]
  /\ \/ task[s].chatId = 0
     \/ /\ task[s].chatId \in 1..Len(chats)
        /\ {sockUser[s], task[s].to}
             \subseteq Range(chats[task[s].chatId].participants)

\* C25: when the handler of a send that passed the checks and stored its
\* message ends on a socket that is still connected, the events hold exactly
\* one message_sent for that message, addressed to that socket.
C25_PersistedSendConfirmed ==
  [][\A s \in Sockets :
       (/\ task[s].pc \in {"findById", "findOne", "chatSave", "chatCreate", "emit"}
        /\ task'[s].pc = "idle"
        /\ HasMessage(task[s].msg) /\ ChecksPassed(s)
        /\ conn[s] = "connected") =>
         {e \in events' : e.type = "message_sent" /\ e.msg = task[s].msg}
           = {Emit("message_sent", s, task[s].msg, "socket")}]_vars

\* C26: the status of every User record and of every registry entry is one
\* of online, offline, away and busy, whatever update_status events arrive.
C26_StatusInEnum ==
  /\ \A u \in DOMAIN users : users[u].status \in StatusEnum
  /\ \A u \in UserIds : Online(u) => onlineUsers[u].status \in StatusEnum

\* The connections other than s that the registry holds and that are not
\* closed: inside their handshake or open
RegisteredOthers(s) ==
  {r \in Sockets \ {s} : Registered(r) /\ conn[r] \in {"auth", "connected"}}

\* Socket s makes the presence announcement `type` in this step
Announces(s, type) ==
  \/ type = "user_online" /\ authenticateSocket_update(s, TRUE)
  \/ type = "user_offline" /\ disconnect_update(s, TRUE)
  \/ type = "user_status_changed" /\ update_status_update(s, TRUE)

\* C27: a step in which socket s announces user_online, user_offline or
\* user_status_changed delivers that event to every other connection the
\* registry holds at that moment, and delivers nothing to s.
C27_PresenceReachesRegistered ==
  [][\A s \in Sockets :
       \A type \in {"user_online", "user_offline", "user_status_changed"} :
         Announces(s, type) =>
           /\ \A r \in RegisteredOthers(s) :
                Emit(type, r, 0, sockUser[s]) \in events'
           /\ \A e \in events' \ events : e.to # s]_vars

\* C28: by the time the disconnect handler of socket s ends, user_offline
\* has been emitted to every other open connection, and by the time its
\* update_status handler ends, user_status_changed has been, whether the
\* status write succeeded or failed.
C28_BroadcastWithoutWrite ==
  [][\A s \in Sockets :
       \A r \in Sockets \ {s} :
         conn[r] = "connected" =>
           /\ (conn[s] = "closing" /\ conn'[s] = "closed") =>
                Emit("user_offline", r, 0, sockUser[s]) \in events'
           /\ (task[s].pc = "status" /\ task'[s].pc = "idle") =>
                Emit("user_status_changed", r, 0, sockUser[s]) \in events']_vars

C30_AuthenticatedEmitted ==
  \A s \in Sockets :
    conn[s] \in {"connected", "closing", "closed"} =>
      \E e \in events :
        e.type = "authenticated" /\ e.to = s /\ e.via = sockUser[s]

\* C31: a GET of /search by an authenticated user is handled by
\* searchMessages and a GET of /unread/count by getUnreadCount; neither is
\* handled by getMessage.
C31_SearchReachesItsHandler ==
  [][\A r \in Reqs, from \in Callers, ok \in BOOLEAN :
       /\ router_get(r, from, <<"search">>, ok) => req'[r].kind = "search"
       /\ router_get(r, from, <<"unread", "count">>, ok) =>
            req'[r].kind = "unread"]_vars

\* C32: a POST to /refresh-token with a valid refresh token of an existing,
\* active user, with the store answering, is handled by refreshToken and
\* answered 200 with the new access token.
C32_RefreshIssuesToken ==
  [][\A r \in Reqs, u \in ExistingUsers :
       (users[u].isActive /\ post_refreshToken(r, u, TRUE)) =>
         /\ req'[r].kind = "refresh"
         /\ req'[r].status = 200 /\ req'[r].from = u]_vars

\* C33: every non-group chat in the store has two participants, they are
\* two different identities, and they are stored in sorted order.
C33_ChatPairCanonical ==
  \A i \in 1..Len(chats) :
    ~chats[i].isGroup =>
      /\ Len(chats[i].participants) = 2
      /\ chats[i].participants[1] # chats[i].participants[2]
      /\ Rank(chats[i].participants[1]) <= Rank(chats[i].participants[2])

\* C34: every new_message event for a message from A to B went to a
\* connection of B, of a participant of a chat that contains both A and B,
\* or of A itself.
C34_NewMessageOnlyToParties ==
  \A e \in events :
    (e.type = "new_message" /\ HasMessage(e.msg)) =>
      \/ sockUser[e.to] \in {MessageById(e.msg).sender, MessageById(e.msg).receiver}
      \/ \E i \in 1..Len(chats) :
            /\ {MessageById(e.msg).sender, MessageById(e.msg).receiver}
                 \subseteq Range(chats[i].participants)
            /\ sockUser[e.to] \in Range(chats[i].participants)

\* The messages between the participants of chat i whose send was confirmed
\* with message_sent
ConfirmedIn(i) ==
  {m \in messages :
     /\ {m.sender, m.receiver} = Range(chats[i].participants)
     /\ \E e \in events : e.type = "message_sent" /\ e.msg = m.id}

\* C35: when no handler is in flight and two sends between the two
\* participants of their only chat have completed, the chat's lastMessage is
\* the message stored last (socket sends store their messages in the order
\* of their ids).
C35_LastMessageIsLatest ==
  (\A s \in Sockets : task[s].pc = "idle") =>
    \A i \in 1..Len(chats) :
      (/\ Len(chats) = 1 /\ ~chats[i].isGroup
       /\ Cardinality(ConfirmedIn(i)) = 2) =>
        \A m \in ConfirmedIn(i) : m.id <= chats[i].lastMessage

\* C36: a step sets a message's isRead only when it is the save of a
\* read_receipt on a connection of the message's receiver or a mark-read
\* request of the receiver, and no step resets isRead.
C36_ReadOnlyByReceiver ==
  [][\A x \in messages, y \in messages' :
       x.id = y.id =>
         /\ x.isRead => y.isRead
         /\ (~x.isRead /\ y.isRead) =>
              \/ \E s \in Sockets :
                    /\ task[s].pc = "readSave" /\ task'[s].pc = "idle"
                    /\ task[s].msg = x.id /\ sockUser[s] = x.receiver
              \/ \E r \in Reqs :
                    /\ req'[r] # req[r] /\ req'[r].kind = "markRead"
                    /\ req'[r].status = 200 /\ req'[r].from = x.receiver]_vars

C36_Witness ==
  /\ \E m \in messages : m.isRead /\ m.edited /\ m.deleted
  /\ \E r \in Reqs :
       /\ req[r].kind = "markRead" /\ req[r].status = 200
       /\ \E m \in messages : req[r].from = m.sender

\* C37: no step changes a message that is soft-deleted, and no step emits a
\* message_read notification for one.
C37_DeletedIsFrozen ==
  [][\A x \in messages :
       x.deleted =>
         /\ x \in messages'
         /\ \A e \in events' \ events :
              ~(e.type = "message_read" /\ e.msg = x.id)]_vars

\* C38: a send_message without a recipient or without content adds exactly
\* one event, an error with code INVALID_DATA to the sending connection, and
\* leaves the stored messages and chats as they were.
C38_InvalidSendOnlyErrors ==
  [][\A s \in Sockets, to \in Recipients, content \in Contents,
       c \in {0} \cup ChatIds, ok \in BOOLEAN :
       ((to = Nil \/ content = "") /\ send_message(s, to, content, c, ok)) =>
         /\ messages' = messages
         /\ chats' = chats
         /\ events' \ events = {ErrorTo(s, "INVALID_DATA", msgCount + 1)}
         /\ task' = task]_vars

C38_Witness ==
  \E e \in events, s \in Sockets :
    /\ e.type = "error" /\ e.via = "INVALID_DATA"
    /\ ~HasMessage(e.msg)
    /\ s # e.to /\ conn[s] = "connected"
    /\ messages # {} /\ Len(chats) > 0

\* ------------------------------------------------------------- registration
\* _ids of users that register
NewUserIds == {"u1", "u2"}
\* usernames and addresses a client may submit; both pass the Joi schemas
Usernames == {"a", "dan"}
Emails == {"A@x.io", "D@x.io", "d@x.io"}

\* User.findOne({$or: [{email}, {username}], _id: {$ne: self}}); Nil is a
\* condition left out, and the email condition is cast with the schema's
\* lowercase setter
ExistingUser(username, email, self) ==
  {u \in DOMAIN users \ {self} :
     \/ username # Nil /\ users[u].username = username
     \/ email # Nil /\ users[u].email = Lower(email)}

\* the unique indexes {email: 1} and {username: 1}: a write of doc as the
\* record of `self` is rejected with a duplicate key error
DuplicateKey(doc, self) ==
  \E u \in DOMAIN users \ {self} :
    users[u].username = doc.username \/ users[u].email = doc.email

RegistersInFlight == {r \in Reqs : req[r].kind = "register" /\ req[r].pc = "save"}

\* the document a request carries
DocOf(r) == CHOOSE d \in req[r].result : TRUE

\* register up to the end of `await User.findOne(...)`: the existence check,
\* then new User
register(r, username, email, dbOk) ==
  /\ Free(r)
  /\ Cardinality(NewUserIds \ DOMAIN users) > Cardinality(RegistersInFlight)
  /\ IF ~dbOk THEN RespondWith(r, "register", Nil, 0, 500, {})
     ELSE IF ExistingUser(username, email, Nil) # {}
     THEN RespondWith(r, "register", Nil, 0, 400, {})
     ELSE req' = [req EXCEPT ![r] =
            [NewReq("register", Nil, 0, "save", 0) EXCEPT
               !.result = {UserDoc(username, email)}]]
  /\ UNCHANGED <<now, users, messages, chats, onlineUsers, conn, sockUser, rooms,
                 task, events, msgCount, chatUpdatedFor, saveFailed>>

\* Mutant of register_save: the collection has no unique index
register_save_noIndex(r, dbOk) ==
  /\ req[r].kind = "register" /\ req[r].pc = "save"
  /\ IF ~dbOk
     THEN Respond(r, 500) /\ UNCHANGED users
     ELSE /\ users' = [u \in DOMAIN users \cup
                               {CHOOSE i \in NewUserIds \ DOMAIN users : TRUE} |->
                        IF u \in DOMAIN users THEN users[u] ELSE DocOf(r)]
          /\ Respond(r, 201)
  /\ UNCHANGED <<now, messages, chats, onlineUsers, conn, sockUser, rooms,
                 task, events, msgCount, chatUpdatedFor, saveFailed>>

\* `await user.save()`: the insert, which the unique indexes reject for a
\* username or email that is already stored (the catch block answers 500),
\* then the 201 response
register_save(r, dbOk) ==
  /\ req[r].kind = "register" /\ req[r].pc = "save"
  /\ IF ~dbOk \/ DuplicateKey(DocOf(r), Nil)
     THEN Respond(r, 500) /\ UNCHANGED users
     ELSE /\ users' = [u \in DOMAIN users \cup
                               {CHOOSE i \in NewUserIds \ DOMAIN users : TRUE} |->
                        IF u \in DOMAIN users THEN users[u] ELSE DocOf(r)]
          /\ Respond(r, 201)
  /\ UNCHANGED <<now, messages, chats, onlineUsers, conn, sockUser, rooms,
                 task, events, msgCount, chatUpdatedFor, saveFailed>>

\* updateProfile up to the end of the availability check, which runs when
\* the body names a username or an email (Nil: not named)
updateProfile(r, from, username, email, dbOk) ==
  /\ Free(r)
  /\ Authenticated(from)
  /\ IF (username # Nil \/ email # Nil) /\ ~dbOk
     THEN RespondWith(r, "profile", from, 0, 500, {})
     ELSE IF ExistingUser(username, email, from) # {}
     THEN RespondWith(r, "profile", from, 0, 400, {})
     ELSE req' = [req EXCEPT ![r] =
            [NewReq("profile", from, 0, "update", 0) EXCEPT
               !.result = {[username |-> username, email |-> email]}]]
  /\ UNCHANGED <<now, users, messages, chats, onlineUsers, conn, sockUser, rooms,
                 task, events, msgCount, chatUpdatedFor, saveFailed>>

\* the user record after {$set: updates}, the email through its setter
Updated(u, updates) ==
  [users[u] EXCEPT
     !.username = IF updates.username = Nil THEN @ ELSE updates.username,
     !.email = IF updates.email = Nil THEN @ ELSE Lower(updates.email)]

\* `await User.findByIdAndUpdate(userId, {$set: updates}, ...)`: the update,
\* which the unique indexes reject as they reject an insert
updateProfile_update(r, dbOk) ==
  /\ req[r].kind = "profile" /\ req[r].pc = "update"
  /\ IF ~dbOk \/ DuplicateKey(Updated(req[r].from, DocOf(r)), req[r].from)
     THEN Respond(r, 500) /\ UNCHANGED users
     ELSE /\ users' = [users EXCEPT ![req[r].from] = Updated(req[r].from, DocOf(r))]
          /\ Respond(r, 200)
  /\ UNCHANGED <<now, messages, chats, onlineUsers, conn, sockUser, rooms,
                 task, events, msgCount, chatUpdatedFor, saveFailed>>

\* C39: no two stored users have the same email or the same username, also
\* after two registrations with the same email or username both passed the
\* existence check before either saved.
C39_UniqueUsers ==
  \A u \in DOMAIN users, v \in DOMAIN users :
    u # v => users[u].email # users[v].email /\ users[u].username # users[v].username

C39_Witness ==
  \E r \in Reqs, q \in Reqs, u \in DOMAIN users \cap NewUserIds :
    /\ req[r].kind = "register" /\ req[r].pc = "done" /\ req[r].status = 201
    /\ req[q].kind = "register" /\ req[q].pc = "done" /\ req[q].status = 500
    /\ users[u] = DocOf(r)
    /\ DocOf(q).email = users[u].email

\* ------------------------------------------------------------- specifications
\* The connection lifecycle alone, over every socket
NextPresence ==
  \/ \E s \in Sockets, t \in Tokens, ok \in BOOLEAN : authenticateSocket(s, t, ok)
  \/ \E s \in Sockets, ok \in BOOLEAN : authenticateSocket_update(s, ok)
  \/ \E s \in Sockets : disconnect(s)
  \/ \E s \in Sockets, ok \in BOOLEAN : disconnect_update(s, ok)

SpecPresence == Init /\ [][NextPresence]_vars

\* The same, where every handler that is waiting on a store call gets its
\* answer: node's event loop runs the continuation of every settled promise
SpecPresenceFair ==
  /\ SpecPresence
  /\ \A s \in Sockets :
       /\ WF_vars(\E ok \in BOOLEAN : authenticateSocket_update(s, ok))
       /\ WF_vars(\E ok \in BOOLEAN : disconnect_update(s, ok))

\* Connections and the send_message handler with every payload and every store
\* outcome, over the first MainSockets sockets
Next ==
  \/ \E s \in 1..MainSockets, t \in Tokens, ok \in BOOLEAN : authenticateSocket(s, t, ok)
  \/ \E s \in 1..MainSockets, ok \in BOOLEAN : authenticateSocket_update(s, ok)
  \/ \E s \in 1..MainSockets : disconnect(s)
  \/ \E s \in 1..MainSockets, ok \in BOOLEAN : disconnect_update(s, ok)
  \/ \E s \in 1..MainSockets, c \in ChatIds : join_chat(s, c)
  \/ \E s \in 1..MainSockets, to \in Recipients, content \in Contents,
        c \in {0} \cup ChatIds, ok \in BOOLEAN : send_message(s, to, content, c, ok)
  \/ \E s \in 1..MainSockets, ok \in BOOLEAN : send_findById(s, ok)
  \/ \E s \in 1..MainSockets, ok \in BOOLEAN : send_findOne(s, ok)
  \/ \E s \in 1..MainSockets, ok \in BOOLEAN : send_chatSave(s, ok)
  \/ \E s \in 1..MainSockets, ok \in BOOLEAN : send_chatCreate(s, ok)
  \/ \E s \in 1..MainSockets : send_emit(s)

Spec == Init /\ [][Next]_vars

\* Delivery to a recipient with several connections: the first socket is
\* "a"'s and the others are "b"'s, well-formed sends from "a" to "b" without
\* chatId, store calls that succeed
NextDelivery ==
  \/ \E s \in Sockets : authenticateSocket(s, IF s = 1 THEN "a" ELSE "b", TRUE)
  \/ \E s \in Sockets : authenticateSocket_update(s, TRUE)
  \/ \E s \in Sockets : disconnect(s)
  \/ \E s \in Sockets : disconnect_update(s, TRUE)
  \/ \E s \in Sockets, c \in ChatIds : join_chat(s, c)
  \/ \E s \in Sockets :
        /\ msgCount < DeliverySends
        /\ sockUser[s] = "a"
        /\ send_message(s, "b", "hi", 0, TRUE)
  \/ \E s \in Sockets : send_findOne(s, TRUE)
  \/ \E s \in Sockets : send_chatSave(s, TRUE)
  \/ \E s \in Sockets : send_chatCreate(s, TRUE)
  \/ \E s \in Sockets : send_emit(s)

SpecDelivery == Init /\ [][NextDelivery]_vars

\* The REST message handlers alone, with every input and every store outcome
NextRest ==
  \/ \E r \in Reqs, from \in Callers, to \in Callers \cup {"g"}, c \in {0} \cup ChatIds,
        ok \in BOOLEAN : sendMessage(r, from, to, c, ok)
  \/ \E r \in Reqs, ok \in BOOLEAN : sendMessage_save(r, ok)
  \/ \E r \in Reqs, ok \in BOOLEAN : sendMessage_findById(r, ok)
  \/ \E r \in Reqs, ok \in BOOLEAN : findOrCreate_findOne(r, ok)
  \/ \E r \in Reqs, ok \in BOOLEAN : findOrCreate_create(r, ok)
  \/ \E r \in Reqs, ok \in BOOLEAN : findOrCreate_reload(r, ok)
  \/ \E r \in Reqs, ok \in BOOLEAN, pop \in BOOLEAN : sendMessage_chatSave(r, ok, pop)
  \/ \E r \in Reqs, from \in Callers, other \in Callers \cup {"g"}, ok \in BOOLEAN :
        getConversation(r, from, other, ok)
  \/ \E r \in Reqs, ok \in BOOLEAN : getConversation_find(r, ok)

SpecRest == Init /\ [][NextRest]_vars

\* Sends that name a chat: the callers' connections, recipients that exist
\* and differ from the sender, store calls that succeed
NextChatId ==
  \/ \E s \in 1..MainSockets, t \in Callers : authenticateSocket(s, t, TRUE)
  \/ \E s \in 1..MainSockets : authenticateSocket_update(s, TRUE)
  \/ \E s \in 1..MainSockets, to \in ExistingUsers, c \in {0} \cup ChatIds :
        /\ to # sockUser[s]
        /\ send_message(s, to, "hi", c, TRUE)
  \/ \E s \in 1..MainSockets : send_findById(s, TRUE)
  \/ \E s \in 1..MainSockets : send_findOne(s, TRUE)
  \/ \E s \in 1..MainSockets : send_chatSave(s, TRUE)
  \/ \E s \in 1..MainSockets : send_chatCreate(s, TRUE)
  \/ \E s \in 1..MainSockets : send_emit(s)

SpecChatId == Init /\ [][NextChatId]_vars
\* Accounts that are deactivated while their tokens are still valid: the
\* connection lifecycle and deactivateAccount, store calls that succeed
NextAccount ==
  \/ \E s \in Sockets, t \in Callers : authenticateSocket(s, t, TRUE)
  \/ \E s \in Sockets : authenticateSocket_update(s, TRUE)
  \/ \E s \in Sockets : disconnect(s)
  \/ \E s \in Sockets : disconnect_update(s, TRUE)
  \/ \E u \in Callers : deactivateAccount(u, TRUE)

SpecAccount == Init /\ [][NextAccount]_vars
\* Presence and status: the callers' connections on the first MainSockets
\* sockets, update_status, store calls that succeed
NextStatus ==
  \/ \E s \in 1..MainSockets, t \in Callers : authenticateSocket(s, t, TRUE)
  \/ \E s \in 1..MainSockets : authenticateSocket_update(s, TRUE)
  \/ \E s \in 1..MainSockets : disconnect(s)
  \/ \E s \in 1..MainSockets : disconnect_update(s, TRUE)
  \/ \E s \in 1..MainSockets, st \in Statuses : update_status(s, st)
  \/ \E s \in 1..MainSockets : update_status_update(s, TRUE)

SpecStatus == Init /\ [][NextStatus]_vars
\* A store that already holds the chat of "a" and "b" with one message from
\* "a" to "b", as a completed send at minute t leaves it; nobody is connected
InitStore(t) ==
  /\ users = [u \in ExistingUsers |-> UserDoc(u, EmailOf(u))]
  /\ now = t
  /\ messages = {NewMessage(1, "a", "b", now)}
  /\ chats = <<[participants |-> SortPair("a", "b"), lastMessage |-> 1,
                isGroup |-> FALSE, lastActivity |-> t]>>
  /\ onlineUsers = [u \in UserIds |-> NoEntry]
  /\ conn = [s \in Sockets |-> "new"]
  /\ sockUser = [s \in Sockets |-> Nil]
  /\ rooms = [s \in Sockets |-> {}]
  /\ task = [s \in Sockets |-> IdleTask]
  /\ req = [r \in Reqs |-> IdleReq]
  /\ events = {}
  /\ msgCount = 1
  /\ chatUpdatedFor = {1}
  /\ saveFailed = {}

InitRead == InitStore(MaxTime \div 2)

\* Read receipts over that store: the callers' connections on the first
\* MainSockets sockets, read_receipt with every payload and store outcome,
\* a clock
NextRead ==
  \/ \E s \in 1..MainSockets, t \in Callers : authenticateSocket(s, t, TRUE)
  \/ \E s \in 1..MainSockets : authenticateSocket_update(s, TRUE)
  \/ \E s \in 1..MainSockets : disconnect(s)
  \/ \E s \in 1..MainSockets : disconnect_update(s, TRUE)
  \/ \E s \in 1..MainSockets, c \in ChatIds : join_chat(s, c)
  \/ \E s \in 1..MainSockets, m \in 1..MaxMsgs, c \in {0} \cup ChatIds :
        read_receipt(s, m, c)
  \/ \E s \in 1..MainSockets, ok \in BOOLEAN : read_findById(s, ok)
  \/ \E s \in 1..MainSockets, ok \in BOOLEAN : read_save(s, ok)
  \/ Tick(MaxTime \div 2)

SpecRead == InitRead /\ [][NextRead]_vars
\* Typing indicators: the callers' connections on the first MainSockets
\* sockets, typing towards users with and without a registry entry
NextTyping ==
  \/ \E s \in 1..MainSockets, t \in Callers : authenticateSocket(s, t, TRUE)
  \/ \E s \in 1..MainSockets : authenticateSocket_update(s, TRUE)
  \/ \E s \in 1..MainSockets : disconnect(s)
  \/ \E s \in 1..MainSockets : disconnect_update(s, TRUE)
  \/ \E s \in 1..MainSockets, to \in Callers \cup {"g"}, isTyping \in BOOLEAN :
        typing(s, to, isTyping)

SpecTyping == Init /\ [][NextTyping]_vars
InitMessages == InitStore(0)

\* The REST handlers that edit, delete and read messages, over that store,
\* with every caller and message id, every store outcome for the edits and
\* deletes, reads whose store calls succeed, and a clock that jumps to the
\* last minute inside the edit window of the stored message and to the first
\* minute past it
NextMessages ==
  \/ \E r \in Reqs, from \in Callers, m \in 1..MaxMsgs, ok \in BOOLEAN :
        updateMessage(r, from, m, ok)
  \/ \E r \in Reqs, ok \in BOOLEAN, pop \in BOOLEAN : updateMessage_save(r, ok, pop)
  \/ \E r \in Reqs, from \in ExistingUsers, m \in 1..MaxMsgs, ok \in BOOLEAN :
        deleteMessage(r, from, m, ok)
  \/ \E r \in Reqs, ok \in BOOLEAN : deleteMessage_save(r, ok)
  \/ \E r \in Reqs, from \in Callers, m \in 1..MaxMsgs : getMessage(r, from, m, TRUE)
  \/ \E r \in Reqs, from \in Callers : getUnreadCount(r, from, TRUE)
  \/ \E r \in Reqs, from \in Callers : getChats(r, from, TRUE)
  \/ \E r \in Reqs : getChats_count(r, TRUE)
  \/ \E r \in Reqs, from \in Callers, other \in Callers :
        from # other /\ getConversation(r, from, other, TRUE)
  \/ \E r \in Reqs : getConversation_find(r, TRUE)
  \/ \E r \in Reqs : findOrCreate_findOne(r, TRUE)
  \/ \E d \in {EditWindow - now, EditWindow + 1 - now} : d > 0 /\ Tick(d)

SpecMessages == InitMessages /\ [][NextMessages]_vars
\* Sends, disconnects and deletes together: the first socket is "a"'s and
\* the second is "b"'s, well-formed sends to the other caller without chatId,
\* disconnects while a send is in flight, one deleteMessage request at a
\* time by either caller; the sockets' store calls succeed
NextDurable ==
  \/ \E s \in 1..MainSockets : authenticateSocket(s, IF s = 1 THEN "a" ELSE "b", TRUE)
  \/ \E s \in 1..MainSockets : authenticateSocket_update(s, TRUE)
  \/ \E s \in 1..MainSockets : disconnect(s)
  \/ \E s \in 1..MainSockets : disconnect_update(s, TRUE)
  \/ \E s \in 1..MainSockets :
        send_message(s, IF sockUser[s] = "a" THEN "b" ELSE "a", "hi", 0, TRUE)
  \/ \E s \in 1..MainSockets : send_findOne(s, TRUE)
  \/ \E s \in 1..MainSockets : send_chatSave(s, TRUE)
  \/ \E s \in 1..MainSockets : send_chatCreate(s, TRUE)
  \/ \E s \in 1..MainSockets : send_emit(s)
  \/ \E from \in Callers, m \in 1..MaxMsgs, ok \in BOOLEAN :
        deleteMessage(1, from, m, ok)
  \/ \E ok \in BOOLEAN : deleteMessage_save(1, ok)

SpecDurable == Init /\ [][NextDurable]_vars
\* Joining rooms over the stored chat of a and b: connections of a, c and b
\* in that order (a fourth connection, where there is one, is b's again),
\* join_chat for the stored chat and for an id no chat has
InitJoin == InitStore(0)

NextJoin ==
  \/ \E s \in Sockets :
        authenticateSocket(s, IF s = 1 THEN "a" ELSE IF s = 2 THEN "c" ELSE "b",
                           TRUE)
  \/ \E s \in Sockets : authenticateSocket_update(s, TRUE)
  \/ \E s \in Sockets : disconnect(s)
  \/ \E s \in Sockets : disconnect_update(s, TRUE)
  \/ \E s \in Sockets, c \in ChatIds : join_chat_start(s, c)
  \/ \E s \in Sockets, ok \in BOOLEAN : join_chat_findById(s, ok)

SpecJoin == InitJoin /\ [][NextJoin]_vars

\* Failing handlers over the stored chat of a and b: a's and b's connections
\* with send_message, join_chat, read_receipt and update_status, every store
\* call of theirs succeeding or failing
InitErrors == InitStore(0)

NextErrors ==
  \/ \E s \in 1..MainSockets :
        authenticateSocket(s, IF s = 1 THEN "a" ELSE "b", TRUE)
  \/ \E s \in 1..MainSockets : authenticateSocket_update(s, TRUE)
  \/ \E s \in 1..MainSockets : disconnect(s)
  \/ \E s \in 1..MainSockets : disconnect_update(s, TRUE)
  \/ \E s \in 1..MainSockets, to \in Recipients, content \in Contents,
        c \in {0} \cup ChatIds, ok \in BOOLEAN : send_message(s, to, content, c, ok)
  \/ \E s \in 1..MainSockets, ok \in BOOLEAN : send_findById(s, ok)
  \/ \E s \in 1..MainSockets, ok \in BOOLEAN : send_findOne(s, ok)
  \/ \E s \in 1..MainSockets, ok \in BOOLEAN : send_chatSave(s, ok)
  \/ \E s \in 1..MainSockets, ok \in BOOLEAN : send_chatCreate(s, ok)
  \/ \E s \in 1..MainSockets : send_emit(s)
  \/ \E s \in 1..MainSockets, c \in ChatIds : join_chat_start(s, c)
  \/ \E s \in 1..MainSockets, ok \in BOOLEAN : join_chat_findById(s, ok)
  \/ \E s \in 1..MainSockets : read_receipt(s, 1, 1)
  \/ \E s \in 1..MainSockets, ok \in BOOLEAN : read_findById(s, ok)
  \/ \E s \in 1..MainSockets, ok \in BOOLEAN : read_save(s, ok)
  \/ \E s \in 1..MainSockets : update_status(s, "away")
  \/ \E s \in 1..MainSockets, ok \in BOOLEAN : update_status_update(s, ok)

SpecErrors == InitErrors /\ [][NextErrors]_vars

\* Sends on both paths with a clock: b's connection sends to a over the
\* socket, a sends to b with REST requests, every store call succeeds
NextActivity ==
  \/ authenticateSocket(1, "b", TRUE)
  \/ authenticateSocket_update(1, TRUE)
  \/ send_message(1, "a", "hi", 0, TRUE)
  \/ send_findOne(1, TRUE)
  \/ send_chatSave(1, TRUE)
  \/ send_chatCreate(1, TRUE)
  \/ send_emit(1)
  \/ \E r \in Reqs, c \in {0} \cup ChatIds : sendMessage(r, "a", "b", c, TRUE)
  \/ \E r \in Reqs : sendMessage_save(r, TRUE)
  \/ \E r \in Reqs : sendMessage_findById(r, TRUE)
  \/ \E r \in Reqs : findOrCreate_findOne(r, TRUE)
  \/ \E r \in Reqs : findOrCreate_create(r, TRUE)
  \/ \E r \in Reqs : findOrCreate_reload(r, TRUE)
  \/ \E r \in Reqs : sendMessage_chatSave(r, TRUE, TRUE)
  \/ Tick(MaxTime \div 4)

SpecActivity == Init /\ [][NextActivity]_vars

\* Requests through the routers over the stored chat of a and b: the GET
\* routes of the messages router and the refresh-token route, with deletes in
\* between
NextRoutes ==
  \/ \E r \in Reqs, from \in Callers, path \in GetPaths, ok \in BOOLEAN :
        router_get(r, from, path, ok)
  \/ \E r \in Reqs : getConversation_find(r, TRUE)
  \/ \E r \in Reqs : findOrCreate_findOne(r, TRUE)
  \/ \E r \in Reqs, from \in Callers : deleteMessage(r, from, 1, TRUE)
  \/ \E r \in Reqs : deleteMessage_save(r, TRUE)
  \/ \E r \in Reqs, token \in RefreshTokens, ok \in BOOLEAN :
        post_refreshToken(r, token, ok)

SpecRoutes == InitMessages /\ [][NextRoutes]_vars

\* Sends that name a chat, with rooms: the sends of SpecChatId and join_chat
NextRooms ==
  \/ NextChatId
  \/ \E s \in 1..MainSockets, c \in ChatIds : join_chat(s, c)

SpecRooms == Init /\ [][NextRooms]_vars

\* Two concurrent sends into one chat: a conversation fetch of a creates the
\* chat of a and b, then a's and b's connections send to each other
NextRace ==
  \/ getConversation(1, "a", "b", TRUE)
  \/ getConversation_find(1, TRUE)
  \/ findOrCreate_findOne(1, TRUE)
  \/ findOrCreate_create(1, TRUE)
  \/ findOrCreate_reload(1, TRUE)
  \/ \E s \in 1..MainSockets :
        authenticateSocket(s, IF s = 1 THEN "a" ELSE "b", TRUE)
  \/ \E s \in 1..MainSockets : authenticateSocket_update(s, TRUE)
  \/ \E s \in 1..MainSockets :
        send_message(s, IF sockUser[s] = "a" THEN "b" ELSE "a", "hi", 0, TRUE)
  \/ \E s \in 1..MainSockets : send_findOne(s, TRUE)
  \/ \E s \in 1..MainSockets : send_chatSave(s, TRUE)
  \/ \E s \in 1..MainSockets : send_chatCreate(s, TRUE)
  \/ \E s \in 1..MainSockets : send_emit(s)

SpecRace == Init /\ [][NextRace]_vars

\* The read flag over the stored message of a to b: read_receipt on the
\* connections of b and a, mark-read requests of every user, and an edit and
\* deletes
NextReadFlag ==
  \/ \E s \in 1..MainSockets :
        authenticateSocket(s, IF s = 1 THEN "b" ELSE "a", TRUE)
  \/ \E s \in 1..MainSockets : authenticateSocket_update(s, TRUE)
  \/ \E s \in 1..MainSockets, m \in 1..MaxMsgs : read_receipt(s, m, 0)
  \/ \E s \in 1..MainSockets, ok \in BOOLEAN : read_findById(s, ok)
  \/ \E s \in 1..MainSockets, ok \in BOOLEAN : read_save(s, ok)
  \/ \E r \in Reqs, from \in ExistingUsers, ids \in SUBSET (1..MaxMsgs),
        c \in {0, 1}, strict \in BOOLEAN, ok \in BOOLEAN :
        markAsRead(r, from, ids, c, strict, ok)
  \/ \E r \in Reqs : updateMessage(r, "a", 1, TRUE)
  \/ \E r \in Reqs : updateMessage_save(r, TRUE, TRUE)
  \/ \E r \in Reqs, from \in Callers : deleteMessage(r, from, 1, TRUE)
  \/ \E r \in Reqs : deleteMessage_save(r, TRUE)

SpecReadFlag == InitMessages /\ [][NextReadFlag]_vars

\* Registrations and profile updates over the stored users: every submitted
\* username and address, registrations whose store calls succeed, profile
\* updates with every store outcome
NextRegister ==
  \/ \E r \in Reqs, username \in Usernames, email \in Emails :
        register(r, username, email, TRUE)
  \/ \E r \in Reqs : register_save(r, TRUE)
  \/ \E r \in Reqs, from \in {"a", "u1"}, username \in Usernames \cup {Nil},
        email \in Emails \cup {Nil}, ok \in BOOLEAN :
        updateProfile(r, from, username, email, ok)
  \/ \E r \in Reqs, ok \in BOOLEAN : updateProfile_update(r, ok)

SpecRegister == Init /\ [][NextRegister]_vars

====
